---- MODULE Spec2Model ----
(***************************************************************************)
(* A model of libwimaxll (wimax-tools): the synchronous command            *)
(* acknowledgement path on the tx socket and the notification dispatch     *)
(* path on the rx socket, with the blocking convenience wrappers built on  *)
(* top of it.                                                              *)
(***************************************************************************)
EXTENDS Integers, Sequences, FiniteSets, TLC

(***************************************************************************)
(* errno values and libnl callback actions used by the library             *)
(***************************************************************************)
EIO == 5
ENXIO == 6
ENOMEM == 12
EBUSY == 16
ENODEV == 19
EINVAL == 22
ERANGE == 34
ENODATA == 61
EINPROGRESS == 115

NL_OK == 0
NL_SKIP == 1
NL_STOP == 2

(***************************************************************************)
(* Bounds of the model                                                     *)
(***************************************************************************)
\* receive events (datagrams or read failures) the kernel delivers per run
MaxRecvs == 3
\* netlink messages carried by one datagram
MaxBatch == 2

VARIABLES
    \* ---- command acknowledgement (tx socket) ----
    ack_pc,        \* "idle", "recv" (inside the do/while), "done"
    ack_ctx,       \* struct wimaxll_cb_ctx of the pending command
    ack_ret,       \* value returned by wimaxll_wait_for_ack
    ack_budget,    \* receive events the tx socket will still deliver
    ack_first,     \* history: first ack/error frame fully processed
    ack_second,    \* history: the frame that followed it in its datagram
    ack_rderr,     \* history: read error reported by the last receive
    ack_writes,    \* history: number of times ctx.result changed value
    ack_impl,      \* history: which wimaxll_wait_for_ack ran ("ctx", "mch")
    ack_malformed, \* history: the last receive was stopped by a malformed ack
    \* ---- session and notification dispatch (rx socket) ----
    wmx,           \* struct wimaxll_handle: ifidx and the registered callbacks
    nl_report,     \* libnl build: nl_recvmsgs() reports the messages parsed
    rx_budget,     \* frames and read failures the rx socket will still deliver
    api,           \* library call in progress ("none" when the caller is idle)
    api_pc,        \* "idle", "run", "done"
    api_ret,       \* value returned by the library call
    api_arg,       \* pipe name requested from wimaxll_msg_read
    mtu_ctx,       \* struct wimaxll_cb_msg_to_user_context
    buf,           \* *buf of wimaxll_msg_read
    sc_ctx,        \* state-change context: result and the 'set' flag
    outs,          \* *old_state and *new_state of the caller
    prev,          \* callback pair saved by the wrapper in progress
    rpc,           \* wimaxll_recv: "idle", "loop", "nl", "cb", "ret"
    rctx,          \* struct wimaxll_cb_ctx of the receive in progress
    nl_res,        \* local 'result': what nl_recvmsgs() returned
    nrecv,         \* messages parsed by the nl_recvmsgs() in progress
    r_ret,         \* value returned by wimaxll_recv / wimaxll_mc_rx_read
    cur,           \* frame whose message callback is executing
    \* ---- history of the receive call in progress ----
    h_ncb,         \* callback invocations
    h_stopped,     \* a callback has returned -EBUSY
    h_after_stop,  \* callback invocations after that
    h_cbret,       \* what the last invoked callback returned
    h_frames,      \* how far the frames dispatched follow FedFrames
    h_last,        \* last frame classified: command, callback present, class
    h_calls,       \* nl_recvmsgs() calls made
    h_stch,        \* first state change dispatched during the library call
    h_match,       \* a message of the requested pipe reached the callback
    h_wmx0,        \* history: the handle as it was when the call was entered
    \* ---- commands sent to the kernel ----
    cmd_op,        \* command in progress ("none" when there is none)
    cmd_pc,        \* "idle", "ack" (frame sent, waiting for the ack), "done"
    cmd_ret,       \* value returned by the command
    cmd_sent,      \* interface index in the frame transmitted, 0 if none was
    \* ---- opening a handle ----
    WIMAX_GNL_VERSION, \* protocol version the library was compiled against
    opn_pc,        \* "idle", "open" (a handle was returned), "failed"
    opn,           \* what the last wimaxll_open did and returned
    opn_rd,        \* the last read made on the default pipe of the handle
    opn_budget,    \* reads the application may still make on the handle
    h_nodev,       \* op-open.c: errno of the last open of a name that is no
                   \* interface, 0 if there was none
    h_proto        \* op-open.c: errno of the last open of an interface that
                   \* is no WiMAX device, 0 if there was none

ackvars == <<ack_pc, ack_ctx, ack_ret, ack_budget, ack_first, ack_second,
             ack_rderr, ack_writes, ack_impl, ack_malformed>>

sessvars == <<wmx, nl_report, rx_budget>>
apivars == <<api, api_pc, api_ret, api_arg, mtu_ctx, buf, sc_ctx, outs, prev>>
recvvars == <<rpc, rctx, nl_res, nrecv, r_ret, cur>>
histvars == <<h_ncb, h_stopped, h_after_stop, h_cbret, h_frames, h_last,
              h_calls, h_stch, h_match, h_wmx0>>
rxvars == <<sessvars, apivars, recvvars, histvars>>
cmdvars == <<cmd_op, cmd_pc, cmd_ret, cmd_sent>>

opnvars == <<WIMAX_GNL_VERSION, opn_pc, opn, opn_rd, opn_budget, h_nodev,
             h_proto>>

VARIABLES
    \* ---- a message written and the frame it makes ----
    wr_pc,         \* "idle", "sent", "failed", "parsed"
    wr_in,         \* arguments of the wimaxll_msg_write in progress
    wr_frame,      \* attributes of the frame transmitted, in order
    wr_ret,        \* value wimaxll_msg_write got from the transmission
    wr_tb          \* what parsing the frame with the policy yields

wrvars == <<wr_pc, wr_in, wr_frame, wr_ret, wr_tb>>

VARIABLES
    \* ---- i2400m helpers: commands from several threads ----
    i2400m,        \* struct i2400m: mutex owner, mt_pending, mt_cb, mt_result,
                   \* and whether the descriptor was freed
    caller_pc,     \* per calling thread: "idle", "locked", "waiting",
                   \* "woken", "relocked", "done"
    caller_mt,     \* per calling thread: message type of its command
    caller_ret,    \* per calling thread: value i2400m_msg_to_dev returned
    caller_budget, \* calls the threads may still make
    dev_queue,     \* commands the device has not answered yet, in order
    rx_thread,     \* the receiving thread: the frame in its callback
    destroy_pc,    \* i2400m_destroy: "none", "locked", "unlocked", "freed"
    h_reply        \* history, per calling thread: <<value>> the reply
                   \* callback returned for the message that woke it

i24vars == <<i2400m, caller_pc, caller_mt, caller_ret, caller_budget,
             dev_queue, rx_thread, destroy_pc, h_reply>>

VARIABLES
    \* ---- i2400m helpers: a walk over a buffer of TLVs ----
    tlv_pc,        \* "idle", "start", "walk" (inside the loop), "end"
    tlv_buf,       \* the bytes of the buffer
    tlv_pos        \* what i2400m_tlv_buffer_walk returned last

tlvvars == <<tlv_pc, tlv_buf, tlv_pos>>

VARIABLES
    \* ---- the rfkill command ----
    rfk_pc,        \* "idle", "done"
    rfk_dev,       \* the device: hardware and software switch, 1 is on
    rfk_run        \* the last run: tool, operation, status got, result

rfkvars == <<rfk_pc, rfk_dev, rfk_run>>

VARIABLES
    \* ---- state names ----
    st_pc,         \* "idle", "done"
    st_table,      \* wimax_st_names_vals[]
    st_lookup      \* the last lookup: function, argument, value returned

stvars == <<st_pc, st_table, st_lookup>>

\* the library proper
libvars == <<ackvars, rxvars, cmdvars, opnvars>>
\* encoders, parsers, helpers and tools built on it
auxvars == <<wrvars, i24vars, tlvvars, rfkvars, stvars>>
\* what the actions of one part leave alone
wr_rest == <<libvars, i24vars, tlvvars, rfkvars, stvars>>
i24_rest == <<libvars, wrvars, tlvvars, rfkvars, stvars>>
tlv_rest == <<libvars, wrvars, i24vars, rfkvars, stvars>>
rfk_rest == <<libvars, wrvars, i24vars, tlvvars, stvars>>
st_rest == <<libvars, wrvars, i24vars, tlvvars, rfkvars>>

vars == <<ackvars, rxvars, cmdvars, opnvars, auxvars>>

(***************************************************************************)
(* Frames the kernel can put on the tx socket                              *)
(***************************************************************************)
AckCodes == {0, 3, -EINVAL}
ErrCodes == {-ENODEV, -EBUSY}
ReadErrs == {-EIO, -ENOMEM}

TxFrames ==
    [kind : {"ack"}, code : AckCodes]
      \cup [kind : {"err"}, code : ErrCodes]
      \cup [kind : {"short", "badtype", "valid"}, code : {0}]

RECURSIVE SeqsUpTo(_, _)
SeqsUpTo(S, n) ==
    IF n = 0 THEN {<< >>}
    ELSE LET shorter == SeqsUpTo(S, n - 1)
         IN shorter \cup {Append(s, x) : s \in shorter, x \in S}

TxDatagrams == SeqsUpTo(TxFrames, MaxBatch) \ {<< >>}

NoFrame == [kind |-> "none", code |-> 0]

(***************************************************************************)
(* The pending command state and its write-once result                     *)
(***************************************************************************)
wimaxll_cb_maybe_set_result(ctx, val) ==
    IF ctx.result = -EINPROGRESS THEN [ctx EXCEPT !.result = val] ELSE ctx

\* netlink error callback: adopt the error code, flag completion, stop
wimaxll_gnl_error_cb(ctx, f) ==
    [ctx |-> [wimaxll_cb_maybe_set_result(ctx, f.code)
                EXCEPT !.msg_done = 1],
     act |-> NL_STOP]

\* mutant: the ack callback overwrites the result and lets nl_recvmsgs()
\* go on with the next message
wimaxll_gnl_ack_cb_overwrite(ctx, f) ==
    IF f.kind = "short" \/ f.kind = "badtype"
    THEN [ctx |-> ctx, act |-> NL_STOP]
    ELSE [ctx |-> [ctx EXCEPT !.result = f.code, !.msg_done = 1],
          act |-> NL_OK]

\* mutant: a malformed acknowledgement also flags completion
wimaxll_gnl_ack_cb_done_on_malformed(ctx, f) ==
    IF f.kind = "short" \/ f.kind = "badtype"
    THEN [ctx |-> [ctx EXCEPT !.msg_done = 1], act |-> NL_STOP]
    ELSE [ctx |-> [wimaxll_cb_maybe_set_result(ctx, f.code)
                     EXCEPT !.msg_done = 1],
          act |-> NL_STOP]

\* netlink ack callback: too short or not NLMSG_ERROR leaves the context
\* untouched; otherwise adopt nl_err->error and flag completion
wimaxll_gnl_ack_cb(ctx, f) ==
    IF f.kind = "short" \/ f.kind = "badtype"
    THEN [ctx |-> ctx, act |-> NL_STOP]
    ELSE [ctx |-> [wimaxll_cb_maybe_set_result(ctx, f.code)
                     EXCEPT !.msg_done = 1],
          act |-> NL_STOP]

\* the callback set wimaxll_wait_for_ack installs on the tx socket
TxDispatch(ctx, f) ==
    CASE f.kind = "err" -> wimaxll_gnl_error_cb(ctx, f)
      [] f.kind \in {"ack", "short", "badtype"} -> wimaxll_gnl_ack_cb(ctx, f)
      [] OTHER -> [ctx |-> ctx, act |-> NL_OK]

\* one nl_recvmsgs() on the tx socket: the messages of the datagram are
\* handed to the callbacks in order until one of them answers NL_STOP
RECURSIVE nl_recvmsgs_tx(_, _)
nl_recvmsgs_tx(ctx, dgram) ==
    IF dgram = << >> THEN ctx
    ELSE LET r == TxDispatch(ctx, Head(dgram))
         IN IF r.act = NL_STOP THEN r.ctx
            ELSE nl_recvmsgs_tx(r.ctx, Tail(dgram))

\* history helper: the first frame of the datagram that completes a command
RECURSIVE FirstDone(_)
FirstDone(dgram) ==
    IF dgram = << >> THEN NoFrame
    ELSE IF Head(dgram).kind \in {"ack", "err"} THEN Head(dgram)
    ELSE IF Head(dgram).kind \in {"short", "badtype"} THEN NoFrame
    ELSE FirstDone(Tail(dgram))

\* history helper: the frame that follows the completing one
RECURSIVE AfterDone(_)
AfterDone(dgram) ==
    IF dgram = << >> THEN NoFrame
    ELSE IF Head(dgram).kind \in {"ack", "err"}
    THEN (IF Len(dgram) > 1 THEN dgram[2] ELSE NoFrame)
    ELSE IF Head(dgram).kind \in {"short", "badtype"} THEN NoFrame
    ELSE AfterDone(Tail(dgram))

\* history helper: the datagram was cut short by a malformed acknowledgement
\* (too short, or not NLMSG_ERROR) before any ack or error frame
RECURSIVE StoppedByMalformed(_)
StoppedByMalformed(dgram) ==
    IF dgram = << >> THEN FALSE
    ELSE IF Head(dgram).kind \in {"short", "badtype"} THEN TRUE
    ELSE IF Head(dgram).kind \in {"ack", "err"} THEN FALSE
    ELSE StoppedByMalformed(Tail(dgram))

AckCtxInit == [result |-> -EINPROGRESS, msg_done |-> 0]

(***************************************************************************)
(* wimaxll_wait_for_ack                                                    *)
(***************************************************************************)
\* entry: ctx.result = -EINPROGRESS, ctx.msg_done = 0
wimaxll_wait_for_ack_enter ==
    /\ ack_pc = "idle"
    /\ ack_budget > 0
    /\ ack_pc' = "recv"
    /\ ack_ctx' = AckCtxInit
    /\ ack_first' = NoFrame
    /\ ack_second' = NoFrame
    /\ ack_rderr' = 0
    /\ ack_writes' = 0
    /\ ack_impl' = "ctx"
    /\ ack_malformed' = FALSE
    /\ UNCHANGED <<auxvars, rxvars, cmdvars, opnvars, ack_ret, ack_budget>>

\* what the function returns once the do/while is left
wimaxll_wait_for_ack_result(ctx, nlres) ==
    LET result == ctx.result
    IN IF result < 0 THEN result ELSE ctx.result

\* one iteration of the do/while whose receive succeeds
wimaxll_wait_for_ack_recv ==
    /\ ack_pc = "recv"
    /\ ack_budget > 0
    /\ \E dgram \in TxDatagrams :
         LET ctx == nl_recvmsgs_tx(ack_ctx, dgram)
         IN /\ ack_ctx' = ctx
            /\ ack_first' = IF ack_first = NoFrame THEN FirstDone(dgram)
                            ELSE ack_first
            /\ ack_second' = IF ack_first = NoFrame THEN AfterDone(dgram)
                             ELSE ack_second
            /\ ack_writes' = ack_writes
                               + (IF ctx.result # ack_ctx.result THEN 1 ELSE 0)
            /\ ack_malformed' = StoppedByMalformed(dgram)
            /\ IF ctx.msg_done = 0
               THEN /\ ack_pc' = "recv"
                    /\ UNCHANGED ack_ret
               ELSE /\ ack_pc' = "done"
                    /\ ack_ret' = wimaxll_wait_for_ack_result(ctx, 0)
    /\ ack_budget' = ack_budget - 1
    /\ UNCHANGED <<auxvars, rxvars, cmdvars, opnvars, ack_rderr, ack_impl>>

\* one iteration of the do/while whose receive fails
wimaxll_wait_for_ack_rderr ==
    /\ ack_pc = "recv"
    /\ ack_budget > 0
    /\ \E e \in ReadErrs :
         /\ ack_rderr' = e
         /\ ack_ret' = wimaxll_wait_for_ack_result(ack_ctx, e)
    /\ ack_pc' = "done"
    /\ ack_malformed' = FALSE
    /\ ack_budget' = ack_budget - 1
    /\ UNCHANGED <<auxvars, rxvars, cmdvars, opnvars, ack_ctx, ack_first, ack_second, ack_writes, ack_impl>>

(***************************************************************************)
(* wimaxll_wait_for_ack, multicast-handle revision: the callbacks keep no  *)
(* completion flag and the function receives exactly once                   *)
(***************************************************************************)
wimaxll_mch_maybe_set_result(mch, val) ==
    IF mch.result = -EINPROGRESS THEN [mch EXCEPT !.result = val] ELSE mch

wimaxll_gnl_error_cb_mch(mch, f) ==
    [ctx |-> wimaxll_mch_maybe_set_result(mch, f.code), act |-> NL_STOP]

wimaxll_gnl_ack_cb_mch(mch, f) ==
    IF f.kind = "short" \/ f.kind = "badtype"
    THEN [ctx |-> mch, act |-> NL_STOP]
    ELSE [ctx |-> wimaxll_mch_maybe_set_result(mch, f.code), act |-> NL_STOP]

TxDispatchMch(mch, f) ==
    CASE f.kind = "err" -> wimaxll_gnl_error_cb_mch(mch, f)
      [] f.kind \in {"ack", "short", "badtype"} ->
            wimaxll_gnl_ack_cb_mch(mch, f)
      [] OTHER -> [ctx |-> mch, act |-> NL_OK]

RECURSIVE nl_recvmsgs_default_tx(_, _)
nl_recvmsgs_default_tx(mch, dgram) ==
    IF dgram = << >> THEN mch
    ELSE LET r == TxDispatchMch(mch, Head(dgram))
         IN IF r.act = NL_STOP THEN r.ctx
            ELSE nl_recvmsgs_default_tx(r.ctx, Tail(dgram))

\* the receive succeeds: return fake_mch.result
wimaxll_wait_for_ack_mch ==
    /\ ack_pc = "idle"
    /\ ack_budget > 0
    /\ \E dgram \in TxDatagrams :
         LET mch == nl_recvmsgs_default_tx(AckCtxInit, dgram)
         IN /\ ack_ctx' = mch
            /\ ack_first' = FirstDone(dgram)
            /\ ack_second' = AfterDone(dgram)
            /\ ack_writes' = IF mch.result # -EINPROGRESS THEN 1 ELSE 0
            /\ ack_malformed' = StoppedByMalformed(dgram)
            /\ ack_ret' = mch.result
    /\ ack_rderr' = 0
    /\ ack_pc' = "done"
    /\ ack_impl' = "mch"
    /\ ack_budget' = ack_budget - 1
    /\ UNCHANGED <<auxvars, rxvars, cmdvars, opnvars>>

\* the receive fails: return its result
wimaxll_wait_for_ack_mch_rderr ==
    /\ ack_pc = "idle"
    /\ ack_budget > 0
    /\ \E e \in ReadErrs :
         /\ ack_rderr' = e
         /\ ack_ret' = e
    /\ ack_ctx' = AckCtxInit
    /\ ack_first' = NoFrame
    /\ ack_second' = NoFrame
    /\ ack_writes' = 0
    /\ ack_malformed' = FALSE
    /\ ack_pc' = "done"
    /\ ack_impl' = "mch"
    /\ ack_budget' = ack_budget - 1
    /\ UNCHANGED <<auxvars, rxvars, cmdvars, opnvars>>

\* the caller issues its next command
wimaxll_wait_for_ack_leave ==
    /\ ack_pc = "done"
    /\ ack_pc' = "idle"
    /\ UNCHANGED <<auxvars, rxvars, cmdvars, opnvars, ack_ctx, ack_ret, ack_budget, ack_first,
                   ack_second, ack_rderr, ack_writes, ack_impl, ack_malformed>>

AckInit ==
    /\ ack_pc = "idle"
    /\ ack_ctx = AckCtxInit
    /\ ack_ret = 0
    /\ ack_budget \in 1..MaxRecvs
    /\ ack_first = NoFrame
    /\ ack_second = NoFrame
    /\ ack_rderr = 0
    /\ ack_writes = 0
    /\ ack_impl = "ctx"
    /\ ack_malformed = FALSE

AckNext ==
    \/ wimaxll_wait_for_ack_enter
    \/ wimaxll_wait_for_ack_recv
    \/ wimaxll_wait_for_ack_rderr
    \/ wimaxll_wait_for_ack_mch
    \/ wimaxll_wait_for_ack_mch_rderr
    \/ wimaxll_wait_for_ack_leave

(***************************************************************************)
(* Frames the kernel can put on the rx socket                              *)
(***************************************************************************)
NULL == "NULL"
NoPipe == "<null>"
WIMAX_PIPE_ANY == "<any>"
Absent == "absent"
AbsentData == <<-1>>

PipeNames == {"diag", "aux"}
States == {"RADIO_OFF", "READY"}
Payloads == {<< >>, <<7, 9>>}
RxErrCodes == {-ENODEV}
IfIdxs == {1, 2}
\* what a callback of the application may return
CbRets == {0, 4, -EBUSY, -EINVAL}

BlankFrame ==
    [cmd |-> "none", parse |-> 0, ifidx |-> -1, pipe |-> NoPipe,
     data |-> AbsentData, old |-> Absent, new |-> Absent, code |-> 0]

\* WIMAX_GNL_OP_MSG_TO_USER: the well-formed frames, and frames that fail
\* the policy check of genlmsg_parse() or lack the IFIDX or DATA attribute
MsgFrames ==
    {[BlankFrame EXCEPT !.cmd = "msg", !.ifidx = i, !.pipe = p, !.data = d] :
        i \in IfIdxs, p \in PipeNames \cup {NoPipe}, d \in Payloads}
      \cup {[BlankFrame EXCEPT !.cmd = "msg", !.parse = -ERANGE]}
      \cup {[BlankFrame EXCEPT !.cmd = "msg", !.data = d] : d \in Payloads}
      \cup {[BlankFrame EXCEPT !.cmd = "msg", !.ifidx = i] : i \in IfIdxs}

\* WIMAX_GNL_RE_STATE_CHANGE: the well-formed frames, and frames that fail
\* the policy check or lack the old or the new state
StchFrames ==
    {[BlankFrame EXCEPT !.cmd = "stch", !.old = o, !.new = n] :
        o \in States, n \in States}
      \cup {[BlankFrame EXCEPT !.cmd = "stch", !.parse = -ERANGE]}
      \cup {[BlankFrame EXCEPT !.cmd = "stch", !.old = o] : o \in States}
      \cup {[BlankFrame EXCEPT !.cmd = "stch", !.new = n] : n \in States}

UnknownFrames == {[BlankFrame EXCEPT !.cmd = "unknown"]}

ErrFrames == {[BlankFrame EXCEPT !.cmd = "err", !.code = c] : c \in RxErrCodes}

RxFrames == MsgFrames \cup StchFrames \cup UnknownFrames

(***************************************************************************)
(* Callback accessors                                                      *)
(***************************************************************************)
\* mutant: the private pointer is not fetched
wimaxll_get_cb_msg_to_user_nopriv(w) ==
    [cb |-> w.msg_to_user_cb, priv |-> NULL]

wimaxll_get_cb_msg_to_user(w) ==
    [cb |-> w.msg_to_user_cb, priv |-> w.msg_to_user_priv]

wimaxll_set_cb_msg_to_user(w, cb, priv) ==
    [w EXCEPT !.msg_to_user_cb = cb, !.msg_to_user_priv = priv]

wimaxll_get_cb_state_change(w) ==
    [cb |-> w.state_change_cb, priv |-> w.state_change_context]

wimaxll_set_cb_state_change(w, cb, context) ==
    [w EXCEPT !.state_change_cb = cb, !.state_change_context = context]

(***************************************************************************)
(* WIMAX_GNL_RE_STATE_CHANGE handling                                      *)
(***************************************************************************)
\* default callback of wimaxll_wait_for_state_change
wimaxll_cb_state_change(sc, o, old_state, new_state) ==
    IF sc.set = 1
    THEN [ret |-> -EBUSY, sc |-> sc, outs |-> o]
    ELSE [ret |-> 0, sc |-> [sc EXCEPT !.set = 1],
          outs |-> [old |-> old_state, new |-> new_state]]

\* wmx->state_change_cb(wmx, ctx, old_state, new_state)
state_change_cb(w, sc, o, f, cbret) ==
    IF w.state_change_cb = "wimaxll_cb_state_change"
    THEN wimaxll_cb_state_change(sc, o, f.old, f.new)
    ELSE [ret |-> cbret, sc |-> sc, outs |-> o]

\* returns an enum nl_cb_action; the callback's value goes to its context
wimaxll_gnl_handle_state_change(w, sc, o, f, cbret) ==
    IF f.parse < 0
    THEN [ret |-> NL_SKIP, sc |-> wimaxll_cb_maybe_set_result(sc, f.parse),
          outs |-> o, called |-> FALSE, cbret |-> 0]
    ELSE IF f.old = Absent \/ f.new = Absent
    THEN [ret |-> NL_SKIP, sc |-> wimaxll_cb_maybe_set_result(sc, -ENXIO),
          outs |-> o, called |-> FALSE, cbret |-> 0]
    ELSE LET r == state_change_cb(w, sc, o, f, cbret)
         IN [ret |-> IF r.ret = -EBUSY THEN NL_STOP ELSE NL_OK,
             sc |-> wimaxll_cb_maybe_set_result(r.sc, r.ret),
             outs |-> r.outs, called |-> TRUE, cbret |-> r.ret]

(***************************************************************************)
(* WIMAX_GNL_OP_MSG_TO_USER handling                                       *)
(***************************************************************************)
\* mutant: the interface of the frame is not compared with the handle's
wimaxll_gnl_handle_msg_to_user_check_anyif(w, f) ==
    IF f.parse < 0 THEN f.parse
    ELSE IF f.ifidx = -1 THEN -EINVAL
    ELSE IF f.data = AbsentData THEN -ENXIO
    ELSE 0

\* mutant: the frame is not checked for the attribute with the data
wimaxll_gnl_handle_msg_to_user_check_nodata(w, f) ==
    IF f.parse < 0 THEN f.parse
    ELSE IF f.ifidx = -1 THEN -EINVAL
    ELSE IF w.ifidx > 0 /\ w.ifidx # f.ifidx THEN -ENODEV
    ELSE 0

\* the checks made before the callback runs: a negative errno code when the
\* frame is rejected, 0 when the callback is to be called
wimaxll_gnl_handle_msg_to_user_check(w, f) ==
    IF f.parse < 0 THEN f.parse
    ELSE IF f.ifidx = -1 THEN -EINVAL
    ELSE IF w.ifidx > 0 /\ w.ifidx # f.ifidx THEN -ENODEV
    ELSE IF f.data = AbsentData THEN -ENXIO
    ELSE 0

\* does the pipe of the frame match the pipe wimaxll_msg_read asked for
pipe_match(dst_pipe_name, pipe_name) ==
    IF dst_pipe_name = WIMAX_PIPE_ANY THEN TRUE
    ELSE IF dst_pipe_name = NoPipe /\ pipe_name = NoPipe THEN TRUE
    ELSE IF (dst_pipe_name = NoPipe /\ pipe_name # NoPipe)
              \/ (dst_pipe_name # NoPipe /\ pipe_name = NoPipe) THEN FALSE
    ELSE dst_pipe_name = pipe_name

\* default callback of wimaxll_msg_read; malloc_ok is what malloc() does
wimaxll_msg_read_cb(mtu, pipe_name, data, malloc_ok) ==
    IF mtu.result # -EINPROGRESS THEN [ret |-> -EBUSY, mtu |-> mtu]
    ELSE IF ~pipe_match(mtu.pipe, pipe_name)
    THEN [ret |-> -EINPROGRESS, mtu |-> mtu]
    ELSE IF malloc_ok
    THEN [ret |-> -EBUSY,
          mtu |-> [mtu EXCEPT !.data = data, !.result = Len(data)]]
    ELSE [ret |-> -EBUSY,
          mtu |-> [mtu EXCEPT !.data = AbsentData, !.result = -ENOMEM]]

(***************************************************************************)
(* Dispatch of one valid message                                           *)
(***************************************************************************)
HasCb(w, f) ==
    \/ f.cmd = "msg" /\ w.msg_to_user_cb # NULL
    \/ f.cmd = "stch" /\ w.state_change_cb # NULL

\* mutant: a command without a callback is classified like an unknown one
wimaxll_gnl_cb_nodata(ctx, w, f, handled) ==
    LET result == IF f.cmd \in {"msg", "stch"} /\ HasCb(w, f)
                  THEN handled
                  ELSE -ENODATA
        stop == (result = -EBUSY)
        res == IF stop THEN 0 ELSE result
    IN [ctx |-> wimaxll_cb_maybe_set_result(ctx, res),
        act |-> IF stop THEN NL_STOP
                ELSE IF result < 0 THEN NL_SKIP ELSE NL_OK,
        class |-> res]

\* mutant: any negative value of the handler ends the receive
wimaxll_gnl_cb_stop_on_error(ctx, w, f, handled) ==
    LET result == IF f.cmd \in {"msg", "stch"}
                  THEN (IF HasCb(w, f) THEN handled ELSE 0)
                  ELSE -ENODATA
        stop == (result < 0)
        res == IF result = -EBUSY THEN 0 ELSE result
    IN [ctx |-> wimaxll_cb_maybe_set_result(ctx, res),
        act |-> IF stop THEN NL_STOP ELSE NL_OK,
        class |-> res]

\* wimaxll_gnl_cb of wimaxll_recv; 'handled' is what the handler returned
wimaxll_gnl_cb(ctx, w, f, handled) ==
    LET result == IF f.cmd \in {"msg", "stch"}
                  THEN (IF HasCb(w, f) THEN handled ELSE 0)
                  ELSE -ENODATA
        stop == (result = -EBUSY)
        res == IF stop THEN 0 ELSE result
    IN [ctx |-> wimaxll_cb_maybe_set_result(ctx, res),
        act |-> IF stop THEN NL_STOP
                ELSE IF result < 0 THEN NL_SKIP ELSE NL_OK,
        class |-> res]

\* wimaxll_gnl_cb of wimaxll_mc_rx_read; the handler's value is the action
wimaxll_gnl_cb_mch(mch, w, f, handled) ==
    IF f.cmd \in {"msg", "stch"} /\ HasCb(w, f)
    THEN [ctx |-> wimaxll_mch_maybe_set_result(mch, 0),
          act |-> handled, class |-> 0]
    ELSE [ctx |-> wimaxll_mch_maybe_set_result(mch, -ENODATA),
          act |-> NL_SKIP, class |-> -ENODATA]

\* WIMAX_GNL_OP_MSG_TO_USER handler of the multicast-handle revision
wimaxll_cb_context_set_result(ctx, val) == [ctx EXCEPT !.result = val]

wimaxll_gnl_handle_msg_to_user_mch(mtu, f, cbret) ==
    IF f.parse < 0
    THEN [ret |-> NL_SKIP, mtu |-> wimaxll_cb_context_set_result(mtu, f.parse),
          called |-> FALSE]
    ELSE IF f.data = AbsentData
    THEN [ret |-> NL_SKIP, mtu |-> wimaxll_cb_context_set_result(mtu, -ENXIO),
          called |-> FALSE]
    ELSE [ret |-> IF cbret = -EBUSY THEN NL_STOP ELSE NL_OK,
          mtu |-> wimaxll_cb_context_set_result(mtu, 0),
          called |-> TRUE]

(***************************************************************************)
(* The receive loops                                                       *)
(***************************************************************************)
\* what nl_recvmsgs() returns when it did not fail, n messages parsed
nl_recvmsgs_ok(n) == IF nl_report THEN n ELSE 0

\* mutant: the loop goes on whenever the receive did not fail
wimaxll_recv_again_nofail(ctx, result) ==
    (ctx.result = -EINPROGRESS \/ ctx.result = -ENODATA) /\ result >= 0

\* wimaxll_recv after one nl_recvmsgs(): receive again, or return
wimaxll_recv_again(ctx, result) ==
    (ctx.result = -EINPROGRESS \/ ctx.result = -ENODATA) /\ result > 0

wimaxll_recv_result(ctx, result) ==
    IF result < 0 THEN result ELSE ctx.result

\* wimaxll_mc_rx_read receives once
wimaxll_mc_rx_read_result(mch, result) ==
    IF result < 0 THEN result ELSE mch.result

\* wimaxll_pipe_read: read again while nothing known was received
wimaxll_pipe_read_again(result) ==
    result = -EINPROGRESS \/ result = -ENODATA

\* wimaxll_msg_read: receive again until the callback has stored a result
wimaxll_msg_read_again(mtu, result) ==
    result >= 0 /\ mtu.result = -EINPROGRESS

(***************************************************************************)
(* State of the rx side after wimaxll_open                                 *)
(***************************************************************************)
\* frames and read failures the kernel delivers on the rx socket per run
MaxFrames == 3

NoCur == [frame |-> BlankFrame, dest_ifidx |-> 0]
NoStch == [old |-> Absent, new |-> Absent]
NoMatch == [hit |-> FALSE, pipe |-> NoPipe, data |-> AbsentData]
NoLast == [cmd |-> "none", hascb |-> FALSE, class |-> 0, lacks |-> FALSE]
NoPrev == [cb |-> NULL, priv |-> NULL]
MtuInit(p) == [result |-> -EINPROGRESS, pipe |-> p, data |-> AbsentData]
ScInit == [result |-> -EINPROGRESS, set |-> 0]

\* the receive primitive the call in progress is built on
Path == IF api = "pipe_read" THEN "mc" ELSE "recv"

RxIdle ==
    /\ api = "none" /\ api_pc = "idle" /\ api_ret = 0 /\ api_arg = NoPipe
    /\ mtu_ctx = MtuInit(NoPipe) /\ buf = AbsentData
    /\ sc_ctx = ScInit /\ outs = NoStch /\ prev = NoPrev
    /\ rpc = "idle" /\ rctx = AckCtxInit /\ nl_res = 0 /\ nrecv = 0
    /\ r_ret = 0 /\ cur = NoCur
    /\ h_ncb = 0 /\ h_stopped = FALSE /\ h_after_stop = 0 /\ h_cbret = 0
    /\ h_frames = 0 /\ h_last = NoLast /\ h_calls = 0
    /\ h_stch = NoStch /\ h_match = NoMatch /\ h_wmx0 = wmx

RxInit ==
    /\ wmx \in [ifidx : {0, 1}, msg_to_user_cb : {NULL},
                msg_to_user_priv : {NULL}, state_change_cb : {NULL},
                state_change_context : {NULL}]
    /\ nl_report \in BOOLEAN
    /\ RxIdle

\* history of one wimaxll_recv / wimaxll_mc_rx_read call starts empty
HistNewRecv ==
    /\ h_ncb' = 0 /\ h_stopped' = FALSE /\ h_after_stop' = 0 /\ h_cbret' = 0
    /\ h_frames' = 0 /\ h_last' = NoLast /\ h_calls' = 0

HistNewCall ==
    /\ HistNewRecv
    /\ h_stch' = NoStch /\ h_match' = NoMatch /\ h_wmx0' = wmx

\* the frame sequence unknown, unknown, state change; h_frames counts the
\* frames dispatched while they follow it, and is -1 once they do not
FedFrames == <<"unknown", "unknown", "stch">>

Fed(n, cmd) ==
    IF n >= 0 /\ n < Len(FedFrames) /\ FedFrames[n + 1] = cmd
    THEN n + 1 ELSE -1

\* frame f was parsed and lacks an attribute its handler needs
Lacks(f) ==
    /\ f.parse = 0
    /\ \/ f.cmd = "msg" /\ (f.ifidx = -1 \/ f.data = AbsentData)
       \/ f.cmd = "stch" /\ (f.old = Absent \/ f.new = Absent)

\* history after frame f was dispatched
Hist(f, invoked, cbret, class) ==
    /\ h_ncb' = h_ncb + (IF invoked THEN 1 ELSE 0)
    /\ h_after_stop' = h_after_stop
                         + (IF invoked /\ h_stopped THEN 1 ELSE 0)
    /\ h_stopped' = (h_stopped \/ (invoked /\ cbret = -EBUSY))
    /\ h_cbret' = IF invoked THEN cbret ELSE h_cbret
    /\ h_frames' = Fed(h_frames, f.cmd)
    /\ h_last' = [cmd |-> f.cmd, hascb |-> HasCb(wmx, f), class |-> class,
                   lacks |-> Lacks(f)]
    /\ h_stch' = IF invoked /\ f.cmd = "stch" /\ h_stch = NoStch
                 THEN [old |-> f.old, new |-> f.new] ELSE h_stch

(***************************************************************************)
(* The application registers its callbacks                                 *)
(***************************************************************************)
app_set_cb_msg_to_user ==
    /\ api = "none"
    /\ \E cb \in {NULL, "user"} :
         /\ cb # wmx.msg_to_user_cb
         /\ wmx' = wimaxll_set_cb_msg_to_user(wmx, cb,
                      IF cb = NULL THEN NULL ELSE "user_priv")
    /\ mtu_ctx' = MtuInit(NoPipe)
    /\ h_wmx0' = wmx'
    /\ UNCHANGED <<auxvars, ackvars, cmdvars, opnvars, nl_report, rx_budget, api, api_pc, api_ret, api_arg, buf,
                   sc_ctx, outs, prev, recvvars, h_ncb, h_stopped, h_after_stop, h_cbret,
                   h_frames, h_last, h_calls, h_stch, h_match>>

app_set_cb_state_change ==
    /\ api = "none"
    /\ \E cb \in {NULL, "user"} :
         /\ cb # wmx.state_change_cb
         /\ wmx' = wimaxll_set_cb_state_change(wmx, cb,
                      IF cb = NULL THEN NULL ELSE "user_ctx")
    /\ sc_ctx' = ScInit
    /\ h_wmx0' = wmx'
    /\ UNCHANGED <<auxvars, ackvars, cmdvars, opnvars, nl_report, rx_budget, api, api_pc, api_ret, api_arg, buf,
                   mtu_ctx, outs, prev, recvvars, h_ncb, h_stopped, h_after_stop, h_cbret,
                   h_frames, h_last, h_calls, h_stch, h_match>>

(***************************************************************************)
(* Entry of the library calls                                              *)
(***************************************************************************)
wimaxll_recv_enter ==
    /\ api = "none" /\ rx_budget > 0
    /\ api' = "recv" /\ api_pc' = "run"
    /\ rpc' = "loop"
    /\ HistNewCall
    /\ UNCHANGED <<auxvars, ackvars, cmdvars, opnvars, sessvars, api_ret, api_arg, mtu_ctx, buf, sc_ctx, outs,
                   prev, rctx, nl_res, nrecv, r_ret, cur>>

wimaxll_msg_read_enter ==
    /\ api = "none" /\ rx_budget > 0
    /\ \E pipe_name \in {NoPipe, WIMAX_PIPE_ANY, "diag"} :
         /\ api_arg' = pipe_name
         /\ mtu_ctx' = MtuInit(pipe_name)
    /\ api' = "msg_read" /\ api_pc' = "run"
    /\ prev' = wimaxll_get_cb_msg_to_user(wmx)
    /\ wmx' = wimaxll_set_cb_msg_to_user(wmx, "wimaxll_msg_read_cb", "mtu_ctx")
    /\ buf' = AbsentData
    /\ rpc' = "loop"
    /\ HistNewCall
    /\ UNCHANGED <<auxvars, ackvars, cmdvars, opnvars, nl_report, rx_budget, api_ret, sc_ctx, outs,
                   rctx, nl_res, nrecv, r_ret, cur>>

wimaxll_wait_for_state_change_enter ==
    /\ api = "none" /\ rx_budget > 0
    /\ api' = "wfsc" /\ api_pc' = "run"
    /\ sc_ctx' = ScInit
    /\ outs' = NoStch
    /\ prev' = wimaxll_get_cb_state_change(wmx)
    /\ wmx' = wimaxll_set_cb_state_change(wmx, "wimaxll_cb_state_change",
                                          "stch_ctx")
    /\ rpc' = "loop"
    /\ HistNewCall
    /\ UNCHANGED <<auxvars, ackvars, cmdvars, opnvars, nl_report, rx_budget, api_ret, api_arg, mtu_ctx, buf,
                   rctx, nl_res, nrecv, r_ret, cur>>

wimaxll_pipe_read_enter ==
    /\ api = "none" /\ rx_budget > 0
    /\ api' = "pipe_read" /\ api_pc' = "run"
    /\ rpc' = "loop"
    /\ HistNewCall
    /\ UNCHANGED <<auxvars, ackvars, cmdvars, opnvars, sessvars, api_ret, api_arg, mtu_ctx, buf, sc_ctx, outs,
                   prev, rctx, nl_res, nrecv, r_ret, cur>>

(***************************************************************************)
(* One nl_recvmsgs() on the rx socket                                      *)
(***************************************************************************)
\* nl_recvmsgs() has returned 'result' with the context at ctx
nl_recvmsgs_return(ctx, result) ==
    /\ nl_res' = result
    /\ IF Path = "recv"
       THEN IF wimaxll_recv_again(ctx, result)
            THEN rpc' = "loop" /\ UNCHANGED r_ret
            ELSE rpc' = "ret" /\ r_ret' = wimaxll_recv_result(ctx, result)
       ELSE rpc' = "ret" /\ r_ret' = wimaxll_mc_rx_read_result(ctx, result)

\* a callback has answered 'act' for the n-th message of the datagram
nl_recvmsgs_step(ctx, act, n) ==
    /\ rctx' = ctx
    /\ nrecv' = n
    /\ IF act = NL_STOP
       THEN nl_recvmsgs_return(ctx, nl_recvmsgs_ok(n))
       ELSE rpc' = "nl" /\ UNCHANGED <<nl_res, r_ret>>

\* the pending result is reset and the receive blocks for a datagram
nl_recvmsgs_enter ==
    /\ rpc = "loop" /\ rx_budget > 0
    /\ rctx' = [result |-> -EINPROGRESS,
                msg_done |-> IF Path = "mc" THEN 0 ELSE rctx.msg_done]
    /\ rpc' = "nl"
    /\ nrecv' = 0
    /\ h_calls' = h_calls + 1
    /\ UNCHANGED <<auxvars, ackvars, cmdvars, opnvars, sessvars, apivars, nl_res, r_ret, cur, h_ncb, h_stopped,
                   h_after_stop, h_cbret, h_frames, h_last, h_stch, h_match, h_wmx0>>

\* the receive fails before any message is parsed
nl_recvmsgs_fail ==
    /\ rpc = "nl" /\ nrecv = 0 /\ rx_budget > 0
    /\ \E e \in ReadErrs : nl_recvmsgs_return(rctx, e)
    /\ rx_budget' = rx_budget - 1
    /\ UNCHANGED <<auxvars, ackvars, cmdvars, opnvars, wmx, nl_report, apivars, rctx, nrecv, cur, histvars>>

\* the datagram holds no further message
nl_recvmsgs_done ==
    /\ rpc = "nl" /\ nrecv >= 1
    /\ nl_recvmsgs_return(rctx, nl_recvmsgs_ok(nrecv))
    /\ UNCHANGED <<auxvars, ackvars, cmdvars, opnvars, sessvars, apivars, rctx, nrecv, cur, histvars>>

\* a netlink error message: wimaxll_gnl_error_cb
rx_gnl_error_cb ==
    /\ rpc = "nl" /\ nrecv < MaxBatch /\ rx_budget > 0
    /\ \E f \in ErrFrames :
         LET r == wimaxll_gnl_error_cb(rctx, f)
         IN /\ nl_recvmsgs_step(r.ctx, r.act, nrecv + 1)
            /\ h_frames' = Fed(h_frames, f.cmd)
            /\ h_last' = [cmd |-> f.cmd, hascb |-> FALSE, class |-> f.code,
                           lacks |-> FALSE]
    /\ rx_budget' = rx_budget - 1
    /\ UNCHANGED <<auxvars, ackvars, cmdvars, opnvars, wmx, nl_report, apivars,
                   cur, h_ncb, h_stopped, h_after_stop, h_cbret, h_calls,
                   h_stch, h_match, h_wmx0>>

\* the message callback is called from inside wimaxll_recv
NeedsCall(f) ==
    /\ Path = "recv" /\ f.cmd = "msg" /\ wmx.msg_to_user_cb # NULL
    /\ wimaxll_gnl_handle_msg_to_user_check(wmx, f) = 0

\* wimaxll_gnl_cb for a frame no callback is called for
rx_gnl_cb_plain ==
    /\ rpc = "nl" /\ nrecv < MaxBatch /\ rx_budget > 0
    /\ \E f \in RxFrames :
         /\ ~NeedsCall(f)
         /\ ~(f.cmd = "stch" /\ wmx.state_change_cb # NULL)
         /\ ~(Path = "mc" /\ f.cmd = "msg" /\ wmx.msg_to_user_cb # NULL)
         /\ LET check == wimaxll_gnl_handle_msg_to_user_check(wmx, f)
                d == IF Path = "recv"
                     THEN wimaxll_gnl_cb(rctx, wmx, f, check)
                     ELSE wimaxll_gnl_cb_mch(rctx, wmx, f, NL_OK)
            IN /\ nl_recvmsgs_step(d.ctx, d.act, nrecv + 1)
               /\ Hist(f, FALSE, 0, d.class)
    /\ rx_budget' = rx_budget - 1
    /\ UNCHANGED <<auxvars, ackvars, cmdvars, opnvars, wmx, nl_report, apivars, cur, h_calls, h_match, h_wmx0>>

\* wimaxll_gnl_cb for a state change with a callback registered
rx_gnl_cb_state_change ==
    /\ rpc = "nl" /\ nrecv < MaxBatch /\ rx_budget > 0
    /\ wmx.state_change_cb # NULL
    /\ \E f \in StchFrames :
       \E cbret \in (IF wmx.state_change_cb = "user" THEN CbRets ELSE {0}) :
         LET h == wimaxll_gnl_handle_state_change(wmx, sc_ctx, outs, f, cbret)
             d == IF Path = "recv"
                  THEN wimaxll_gnl_cb(rctx, wmx, f, h.ret)
                  ELSE wimaxll_gnl_cb_mch(rctx, wmx, f, h.ret)
         IN /\ sc_ctx' = h.sc
            /\ outs' = h.outs
            /\ nl_recvmsgs_step(d.ctx, d.act, nrecv + 1)
            /\ Hist(f, h.called, h.cbret, d.class)
    /\ rx_budget' = rx_budget - 1
    /\ UNCHANGED <<auxvars, ackvars, cmdvars, opnvars, wmx, nl_report, api, api_pc, api_ret, api_arg, mtu_ctx,
                   buf, prev, cur, h_calls, h_match, h_wmx0>>

\* wimaxll_gnl_cb of wimaxll_mc_rx_read for a message with a callback
rx_gnl_cb_msg_mch ==
    /\ rpc = "nl" /\ nrecv < MaxBatch /\ rx_budget > 0
    /\ Path = "mc" /\ wmx.msg_to_user_cb # NULL
    /\ \E f \in MsgFrames : \E cbret \in CbRets :
         LET h == wimaxll_gnl_handle_msg_to_user_mch(mtu_ctx, f, cbret)
             d == wimaxll_gnl_cb_mch(rctx, wmx, f, h.ret)
         IN /\ mtu_ctx' = h.mtu
            /\ nl_recvmsgs_step(d.ctx, d.act, nrecv + 1)
            /\ Hist(f, h.called, IF h.called THEN cbret ELSE 0, d.class)
    /\ rx_budget' = rx_budget - 1
    /\ UNCHANGED <<auxvars, ackvars, cmdvars, opnvars, wmx, nl_report, api, api_pc, api_ret, api_arg, buf,
                   sc_ctx, outs, prev, cur, h_calls, h_match, h_wmx0>>

\* mutant: the interface index to restore is always that of the frame
msg_to_user_dest_ifidx_kept(w, f) == f.ifidx

\* dest_ifidx as the callback is called: 0 for a handle open for any
\* interface, which takes the index of the frame meanwhile
msg_to_user_dest_ifidx(w, f) == IF w.ifidx = 0 THEN 0 ELSE f.ifidx

\* wimaxll_gnl_handle_msg_to_user up to the call of the callback: a
\* handle open for any interface takes the ifidx of the frame meanwhile
wimaxll_gnl_handle_msg_to_user_call ==
    /\ rpc = "nl" /\ nrecv < MaxBatch /\ rx_budget > 0
    /\ \E f \in MsgFrames :
         /\ NeedsCall(f)
         /\ cur' = [frame |-> f,
                    dest_ifidx |-> msg_to_user_dest_ifidx(wmx, f)]
         /\ wmx' = IF wmx.ifidx = 0 THEN [wmx EXCEPT !.ifidx = f.ifidx]
                   ELSE wmx
    /\ rpc' = "cb"
    /\ rx_budget' = rx_budget - 1
    /\ UNCHANGED <<auxvars, ackvars, cmdvars, opnvars, nl_report, apivars, rctx, nl_res, nrecv, r_ret, histvars>>

\* the callback returns, wmx->ifidx is restored, wimaxll_gnl_cb finishes
wimaxll_gnl_handle_msg_to_user_return ==
    /\ rpc = "cb"
    /\ LET f == cur.frame
       IN \E cbret \in (IF wmx.msg_to_user_cb = "user" THEN CbRets ELSE {0}) :
          \E malloc_ok \in (IF wmx.msg_to_user_cb = "user" THEN {TRUE}
                            ELSE BOOLEAN) :
            LET r == IF wmx.msg_to_user_cb = "user"
                     THEN [ret |-> cbret, mtu |-> mtu_ctx]
                     ELSE wimaxll_msg_read_cb(mtu_ctx, f.pipe, f.data,
                                              malloc_ok)
                w == [wmx EXCEPT !.ifidx = cur.dest_ifidx]
                d == wimaxll_gnl_cb(rctx, w, f, r.ret)
            IN /\ wmx' = w
               /\ mtu_ctx' = r.mtu
               /\ nl_recvmsgs_step(d.ctx, d.act, nrecv + 1)
               /\ Hist(f, TRUE, r.ret, d.class)
               /\ h_match' = IF r.mtu # mtu_ctx /\ r.mtu.result >= 0
                             THEN [hit |-> TRUE, pipe |-> f.pipe, data |-> f.data]
                             ELSE h_match
    /\ cur' = NoCur
    /\ UNCHANGED <<auxvars, ackvars, cmdvars, opnvars, nl_report, rx_budget, api, api_pc, api_ret, api_arg, buf,
                   sc_ctx, outs, prev, h_calls, h_wmx0>>

(***************************************************************************)
(* Return of the library calls                                             *)
(***************************************************************************)
wimaxll_recv_return ==
    /\ api = "recv" /\ rpc = "ret"
    /\ api_pc' = "done" /\ api_ret' = r_ret
    /\ rpc' = "idle"
    /\ UNCHANGED <<auxvars, ackvars, cmdvars, opnvars, sessvars, api, api_arg, mtu_ctx, buf, sc_ctx, outs, prev,
                   rctx, nl_res, nrecv, r_ret, cur, histvars>>

\* wimaxll_msg_read: loop until a message of the wanted pipe, then restore
wimaxll_msg_read_next ==
    /\ api = "msg_read" /\ rpc = "ret"
    /\ IF wimaxll_msg_read_again(mtu_ctx, r_ret)
       THEN /\ rpc' = "loop"
            /\ HistNewRecv
            /\ UNCHANGED <<wmx, api_pc, api_ret, buf, h_stch, h_match, h_wmx0>>
       ELSE /\ rpc' = "idle"
            /\ api_pc' = "done"
            /\ buf' = IF r_ret >= 0 THEN mtu_ctx.data ELSE buf
            /\ api_ret' = IF r_ret >= 0 THEN mtu_ctx.result ELSE r_ret
            /\ wmx' = wimaxll_set_cb_msg_to_user(wmx, prev.cb, prev.priv)
            /\ UNCHANGED histvars
    /\ UNCHANGED <<auxvars, ackvars, cmdvars, opnvars, nl_report, rx_budget, api, api_arg, mtu_ctx, sc_ctx, outs,
                   prev, rctx, nl_res, nrecv, r_ret, cur>>

\* wimaxll_wait_for_state_change: one wimaxll_recv, then restore
wimaxll_wait_for_state_change_return ==
    /\ api = "wfsc" /\ rpc = "ret"
    /\ wmx' = wimaxll_set_cb_state_change(wmx, prev.cb, prev.priv)
    /\ api_pc' = "done" /\ api_ret' = r_ret
    /\ rpc' = "idle"
    /\ UNCHANGED <<auxvars, ackvars, cmdvars, opnvars, nl_report, rx_budget, api, api_arg, mtu_ctx, buf, sc_ctx,
                   outs, prev, rctx, nl_res, nrecv, r_ret, cur, histvars>>

\* wimaxll_pipe_read: read again while the result is a sentinel
wimaxll_pipe_read_next ==
    /\ api = "pipe_read" /\ rpc = "ret"
    /\ IF wimaxll_pipe_read_again(r_ret)
       THEN /\ rpc' = "loop"
            /\ HistNewRecv
            /\ UNCHANGED <<api_pc, api_ret, h_stch, h_match, h_wmx0>>
       ELSE /\ rpc' = "idle"
            /\ api_pc' = "done" /\ api_ret' = r_ret
            /\ UNCHANGED histvars
    /\ UNCHANGED <<auxvars, ackvars, cmdvars, opnvars, sessvars, api, api_arg, mtu_ctx, buf, sc_ctx, outs, prev,
                   rctx, nl_res, nrecv, r_ret, cur>>

\* the caller takes the result and is idle again; what the finished call
\* left behind is not looked at any more
api_leave ==
    /\ api_pc = "done"
    /\ api' = "none" /\ api_pc' = "idle" /\ api_ret' = 0 /\ api_arg' = NoPipe
    /\ mtu_ctx' = MtuInit(NoPipe) /\ buf' = AbsentData
    /\ sc_ctx' = ScInit /\ outs' = NoStch /\ prev' = NoPrev
    /\ rpc' = "idle" /\ rctx' = AckCtxInit /\ nl_res' = 0 /\ nrecv' = 0
    /\ r_ret' = 0 /\ cur' = NoCur
    /\ HistNewCall
    /\ UNCHANGED <<auxvars, ackvars, cmdvars, opnvars, sessvars>>

RxNext ==
    \/ app_set_cb_msg_to_user
    \/ app_set_cb_state_change
    \/ wimaxll_recv_enter
    \/ wimaxll_msg_read_enter
    \/ wimaxll_wait_for_state_change_enter
    \/ wimaxll_pipe_read_enter
    \/ nl_recvmsgs_enter
    \/ nl_recvmsgs_fail
    \/ nl_recvmsgs_done
    \/ rx_gnl_error_cb
    \/ rx_gnl_cb_plain
    \/ rx_gnl_cb_state_change
    \/ rx_gnl_cb_msg_mch
    \/ wimaxll_gnl_handle_msg_to_user_call
    \/ wimaxll_gnl_handle_msg_to_user_return
    \/ wimaxll_recv_return
    \/ wimaxll_msg_read_next
    \/ wimaxll_wait_for_state_change_return
    \/ wimaxll_pipe_read_next
    \/ api_leave

(***************************************************************************)
(* Commands: wimaxll_rfkill, wimaxll_reset, wimaxll_state_get and          *)
(* wimaxll_msg_write up to the transmission of the frame.  alloc_ok and    *)
(* put_ok tell whether nlmsg_alloc() and genlmsg_put() succeed, errno is   *)
(* the value of errno after the failure, send is what                      *)
(* nl_send_auto_complete() returns.  'sent' tells the frame went out; the  *)
(* result then comes from wimaxll_wait_for_ack.                            *)
(***************************************************************************)
EBADF == 9

\* frames and read failures the rx socket delivers while commands are sent
CmdFrames == 1

\* receives the tx socket delivers to the commands of one run
CmdAcks == 2

CmdOps == {"rfkill", "reset", "state_get", "msg_write"}
SendRes == {-EIO, 20}

wimaxll_rfkill(w, alloc_ok, put_ok, errno, send) ==
    IF w.ifidx = 0 THEN [sent |-> FALSE, ret |-> -EBADF]
    ELSE IF ~alloc_ok THEN [sent |-> FALSE, ret |-> errno]
    ELSE IF ~put_ok THEN [sent |-> FALSE, ret |-> -ENOMEM]
    ELSE IF send < 0 THEN [sent |-> FALSE, ret |-> send]
    ELSE [sent |-> TRUE, ret |-> send]

wimaxll_reset(w, alloc_ok, put_ok, errno, send) ==
    IF w.ifidx = 0 THEN [sent |-> FALSE, ret |-> -EBADF]
    ELSE IF ~alloc_ok THEN [sent |-> FALSE, ret |-> errno]
    ELSE IF ~put_ok THEN [sent |-> FALSE, ret |-> -ENOMEM]
    ELSE IF send < 0 THEN [sent |-> FALSE, ret |-> send]
    ELSE [sent |-> TRUE, ret |-> send]

wimaxll_state_get(w, alloc_ok, put_ok, errno, send) ==
    IF w.ifidx = 0 THEN [sent |-> FALSE, ret |-> -EBADF]
    ELSE IF ~alloc_ok THEN [sent |-> FALSE, ret |-> errno]
    ELSE IF ~put_ok THEN [sent |-> FALSE, ret |-> -ENOMEM]
    ELSE IF send < 0 THEN [sent |-> FALSE, ret |-> send]
    ELSE [sent |-> TRUE, ret |-> send]

wimaxll_msg_write(w, alloc_ok, put_ok, errno, send) ==
    IF w.ifidx = 0 THEN [sent |-> FALSE, ret |-> -EBADF]
    ELSE IF ~alloc_ok THEN [sent |-> FALSE, ret |-> errno]
    ELSE IF ~put_ok THEN [sent |-> FALSE, ret |-> errno]
    ELSE IF send < 0 THEN [sent |-> FALSE, ret |-> send]
    ELSE [sent |-> TRUE, ret |-> send]

CmdSend(op, w, alloc_ok, put_ok, errno, send) ==
    CASE op = "rfkill" -> wimaxll_rfkill(w, alloc_ok, put_ok, errno, send)
      [] op = "reset" -> wimaxll_reset(w, alloc_ok, put_ok, errno, send)
      [] op = "state_get" ->
            wimaxll_state_get(w, alloc_ok, put_ok, errno, send)
      [] OTHER -> wimaxll_msg_write(w, alloc_ok, put_ok, errno, send)

\* a command is called, by the idle application or from inside the message
\* callback wimaxll_recv is executing
wimaxll_cmd_enter ==
    /\ cmd_pc = "idle" /\ ack_pc = "idle" /\ ack_budget > 0
    /\ api = "none" \/ rpc = "cb"
    /\ \E op \in CmdOps, alloc_ok \in BOOLEAN, put_ok \in BOOLEAN,
          send \in SendRes :
       \E errno \in (IF alloc_ok THEN {0, ENOMEM} ELSE {ENOMEM}) :
         LET r == CmdSend(op, wmx, alloc_ok, put_ok, errno, send)
         IN /\ cmd_op' = op
            /\ IF r.sent
               THEN /\ cmd_pc' = "ack"
                    /\ cmd_sent' = wmx.ifidx
                    /\ UNCHANGED cmd_ret
               ELSE /\ cmd_pc' = "done"
                    /\ cmd_sent' = 0
                    /\ cmd_ret' = r.ret
    /\ UNCHANGED <<auxvars, ackvars, rxvars, opnvars>>

\* the command waits for its acknowledgement
wimaxll_cmd_wait_for_ack ==
    /\ cmd_pc = "ack" /\ ack_pc # "done"
    /\ \/ wimaxll_wait_for_ack_enter
       \/ wimaxll_wait_for_ack_recv
       \/ wimaxll_wait_for_ack_rderr
       \/ wimaxll_wait_for_ack_mch
       \/ wimaxll_wait_for_ack_mch_rderr

\* result = wimaxll_wait_for_ack(wmx); the message is freed
wimaxll_cmd_return ==
    /\ cmd_pc = "ack" /\ ack_pc = "done"
    /\ cmd_ret' = ack_ret
    /\ cmd_pc' = "done"
    /\ UNCHANGED <<auxvars, ackvars, rxvars, opnvars, cmd_op, cmd_sent>>

\* the caller takes the result
wimaxll_cmd_leave ==
    /\ cmd_pc = "done"
    /\ cmd_op' = "none" /\ cmd_pc' = "idle" /\ cmd_ret' = 0 /\ cmd_sent' = 0
    /\ ack_pc' = "idle" /\ ack_ctx' = AckCtxInit /\ ack_ret' = 0
    /\ ack_first' = NoFrame /\ ack_second' = NoFrame /\ ack_rderr' = 0
    /\ ack_writes' = 0 /\ ack_impl' = "ctx" /\ ack_malformed' = FALSE
    /\ UNCHANGED <<auxvars, rxvars, opnvars, ack_budget>>

CmdNext ==
    \/ cmd_pc = "idle" /\ RxNext
    \/ wimaxll_cmd_enter
    \/ wimaxll_cmd_wait_for_ack
    \/ wimaxll_cmd_return
    \/ wimaxll_cmd_leave

(***************************************************************************)
(* Opening a handle: wimaxll_open in its three revisions (op-open.c,       *)
(* part_003 and op-reset.c), what it acquires and what it releases.        *)
(***************************************************************************)
EBADR == 53
EPROTONOSUPPORT == 93

\* size of the gnl_mc[] table of a handle
WIMAXLL_MC_MAX == 2
\* kernel and library protocol versions range over 0..MaxVersion
MaxVersion == 12
\* frames in the reply to the open command
MaxReply == 2
\* reads made on a handle before it is closed
MaxReads == 2

Versions == 0..MaxVersion
\* the versions the library may have been compiled against
CompiledVersions == {MaxVersion - 2, MaxVersion - 1}
\* what libnl calls fail with
NlErrs == {-EIO, -ENOMEM}
\* names the kernel gives its multicast groups
GroupNames == {"msg", "aux"}
\* the group lists the kernel may report, one longer than the table
GroupLists ==
    UNION {[1..n -> GroupNames] : n \in 0..(WIMAXLL_MC_MAX + 1)}
\* const char *device: NULL, "#<index>" or an interface name
Devices == {NULL, "#index", "name"}
\* what an uninitialized int may hold
Garbage == {-ENODEV, 0, 7}
\* what the rfkill query made by wimaxll_open returns
ProbeRes == {0, -ENODEV, -EIO}

\* every object starts with no operation made on it
NoRes ==
    [wmx |-> <<>>, nlh_tx |-> <<>>, nlh_rx |-> <<>>, mch |-> <<>>,
     mch_rx |-> <<>>, log |-> <<>>]

\* malloc/free, nl_handle_alloc/nl_connect/nl_close/nl_handle_destroy
Did(res, obj, op) ==
    [res EXCEPT ![obj] = Append(@, op), !.log = Append(@, <<obj, op>>)]

\* a socket is gone when it was destroyed, after a close if it was connected
SocketGone(t) ==
    t \in {<<>>, <<"alloc", "destroy">>,
           <<"alloc", "connect", "close", "destroy">>}

MemoryGone(t) == t \in {<<>>, <<"alloc", "free">>}

NothingLeft(res) ==
    /\ MemoryGone(res.wmx) /\ MemoryGone(res.mch)
    /\ SocketGone(res.nlh_tx) /\ SocketGone(res.nlh_rx)
    /\ SocketGone(res.mch_rx)

\* goto label: the statements from the label to the end of the function
RECURSIVE Unwind(_, _, _)
Unwind(ladder, i, res) ==
    IF i > Len(ladder) THEN res
    ELSE Unwind(ladder, i + 1,
                IF ladder[i].op = "none" THEN res
                ELSE Did(res, ladder[i].obj, ladder[i].op))

Goto(ladder, label, res) ==
    Unwind(ladder, CHOOSE i \in 1..Len(ladder) : label \in ladder[i].labels,
           res)

\* memset(wmx, 0, sizeof(*wmx))
BlankMc == [name |-> "", mch |-> FALSE]

BlankHandle ==
    [ifidx |-> 0, mcg_id |-> 0, mc_msg |-> 0, mc_n |-> 0,
     gnl_mc |-> [i \in 0..(WIMAXLL_MC_MAX - 1) |-> BlankMc]]

\* what the reply to the open command was made of
ReplySummary(sent, frames) ==
    [sent |-> sent,
     acked |-> \E i \in DOMAIN frames : frames[i].kind = "ack",
     ifinfo |-> \E i \in DOMAIN frames : frames[i].kind = "ifinfo",
     only_acks |-> \A i \in DOMAIN frames : frames[i].kind = "ack",
     cnt |-> 0]

NoReply == ReplySummary(FALSE, <<>>)

\* what wimaxll_open did: the value returned, errno, the steps that failed,
\* the objects acquired and released, the handle, the version seen
OpenResult(rev, ret, result, failed, res, w, seen, version, reply) ==
    [rev |-> rev, ret |-> ret, result |-> result,
     errno |-> IF ret = NULL THEN -result ELSE 0,
     failed |-> failed, res |-> res, w |-> w,
     version_seen |-> seen, version |-> version, reply |-> reply]

NoOpen == OpenResult("none", NULL, 0, {}, NoRes, BlankHandle, FALSE, 0, NoReply)

\* the version check that fails on a lower minor version as well
bad_version_strict(version) ==
    \/ version \div 10 # WIMAX_GNL_VERSION \div 10
    \/ version % 10 < WIMAX_GNL_VERSION % 10

\* major = version / 10; if (major != WIMAX_GNL_VERSION / 10): abort;
\* a lower minor version only logs a warning
bad_version(version) == version \div 10 # WIMAX_GNL_VERSION \div 10

HasMsg(groups) == \E i \in 1..Len(groups) : groups[i] = "msg"

\* ---- op-open.c ----

\* wimaxll_mc_group_cb keeps the id of the group named "msg" only
wimaxll_gnl_resolve(in, w) ==
    IF in.fail = "family"
    THEN [result |-> in.err, failed |-> {"family"}, w |-> w, seen |-> FALSE]
    ELSE IF ~HasMsg(in.groups)
    THEN [result |-> -ENXIO, failed |-> {"no_msg_group"},
          w |-> [w EXCEPT !.mcg_id = -1], seen |-> FALSE]
    ELSE IF bad_version(in.version)
    THEN [result |-> -EBADR, failed |-> {"bad_major"},
          w |-> [w EXCEPT !.mcg_id = 1], seen |-> TRUE]
    ELSE [result |-> 1, failed |-> {},
          w |-> [w EXCEPT !.mcg_id = 1], seen |-> TRUE]

OpenLadder ==
    <<[labels |-> {"error_rfkill", "error_nl_add_membership",
                   "error_gnl_resolve"}, obj |-> "nlh_rx", op |-> "close"],
      [labels |-> {"error_nl_connect_rx"}, obj |-> "nlh_rx",
       op |-> "destroy"],
      [labels |-> {"error_nl_handle_alloc_rx"}, obj |-> "nlh_tx",
       op |-> "close"],
      [labels |-> {"error_nl_connect_tx"}, obj |-> "nlh_tx",
       op |-> "destroy"],
      [labels |-> {"error_nl_handle_alloc_tx", "error_no_dev"},
       obj |-> "wmx", op |-> "free"],
      [labels |-> {"error_gnl_handle_alloc"}, obj |-> "wmx", op |-> "none"]>>

OpenFail(label, result, failed, res, w, seen, version) ==
    OpenResult("cb", NULL, result, failed, Goto(OpenLadder, label, res), w,
               seen, version, NoReply)

wimaxll_open(in) ==
    IF in.fail = "malloc"
    THEN OpenFail("error_gnl_handle_alloc", ENOMEM, {"malloc"}, NoRes,
                  BlankHandle, FALSE, 0)
    ELSE
    LET r1 == Did(NoRes, "wmx", "alloc")
        w1 == [BlankHandle EXCEPT
                 !.ifidx = IF in.device # NULL /\ in.exists THEN 1 ELSE 0]
        r2 == Did(r1, "nlh_tx", "alloc")
        r3 == Did(r2, "nlh_tx", "connect")
        r4 == Did(r3, "nlh_rx", "alloc")
        r5 == Did(r4, "nlh_rx", "connect")
        rs == wimaxll_gnl_resolve(in, w1)
        probed == rs.w.ifidx > 0
    IN
    IF in.device # NULL /\ ~in.exists
    THEN OpenFail("error_no_dev", -ENODEV, {"no_dev"}, r1, w1, FALSE, 0)
    ELSE IF in.fail = "tx_alloc"
    THEN OpenFail("error_nl_handle_alloc_tx", ENOMEM, {"tx_alloc"}, r1, w1,
                  FALSE, 0)
    ELSE IF in.fail = "tx_connect"
    THEN OpenFail("error_nl_connect_tx", in.err, {"tx_connect"}, r2, w1,
                  FALSE, 0)
    ELSE IF in.fail = "rx_alloc"
    THEN OpenFail("error_nl_handle_alloc_rx", ENOMEM, {"rx_alloc"}, r3, w1,
                  FALSE, 0)
    ELSE IF in.fail = "rx_connect"
    THEN OpenFail("error_nl_connect_rx", in.err, {"rx_connect"}, r4, w1,
                  FALSE, 0)
    ELSE IF rs.result < 0
    THEN OpenFail("error_gnl_resolve", rs.result, rs.failed, r5, rs.w,
                  rs.seen, IF rs.seen THEN in.version ELSE 0)
    ELSE IF in.fail = "join"
    THEN OpenFail("error_nl_add_membership", in.err, {"join"}, r5, rs.w,
                  TRUE, in.version)
    ELSE IF probed /\ in.probe = -ENODEV
    THEN OpenFail("error_rfkill", -ENODEV, {"rfkill"}, r5, rs.w, TRUE,
                  in.version)
    ELSE OpenResult("cb", "wmx", IF probed THEN in.probe ELSE 0,
                    IF probed /\ in.probe < 0 THEN {"rfkill"} ELSE {},
                    r5, rs.w, TRUE, in.version, NoReply)

\* the steps of op-open.c's wimaxll_open that may be made to fail
OpenFails ==
    {"none", "malloc", "tx_alloc", "tx_connect", "rx_alloc", "rx_connect",
     "family", "join"}

\* ---- part_001: one receive handle per multicast group ----

\* the gnl_mc[] table filled with the first WIMAXLL_MC_MAX groups of a list
McTable(groups) ==
    [i \in 0..(WIMAXLL_MC_MAX - 1) |->
        IF i + 1 <= Len(groups)
        THEN [name |-> groups[i + 1], mch |-> FALSE]
        ELSE BlankMc]

wimaxll_mc_idx_by_name(w, name) ==
    IF \E cnt \in DOMAIN w.gnl_mc : w.gnl_mc[cnt].name = name
    THEN CHOOSE cnt \in DOMAIN w.gnl_mc :
            /\ w.gnl_mc[cnt].name = name
            /\ \A c \in DOMAIN w.gnl_mc : w.gnl_mc[c].name = name => cnt <= c
    ELSE -EPROTONOSUPPORT

McLadder ==
    <<[labels |-> {"error_cb_alloc", "error_nl_add_membership"},
       obj |-> "mch_rx", op |-> "close"],
      [labels |-> {"error_nl_connect_rx"}, obj |-> "mch_rx",
       op |-> "destroy"],
      [labels |-> {"error_nl_handle_alloc_rx"}, obj |-> "mch", op |-> "free"],
      [labels |-> {"error_alloc", "error_reopen", "error_mc_idx_by_name"},
       obj |-> "mch", op |-> "none"]>>

wimaxll_mc_rx_open(w, mc_name, in, res) ==
    LET idx == wimaxll_mc_idx_by_name(w, mc_name)
        r1 == Did(res, "mch", "alloc")
        r2 == Did(r1, "mch_rx", "alloc")
        r3 == Did(r2, "mch_rx", "connect")
        Out(label, result, failed, r) ==
            [result |-> result, failed |-> failed, w |-> w,
             res |-> Goto(McLadder, label, r)]
    IN
    IF idx < 0 THEN Out("error_mc_idx_by_name", idx, {}, res)
    ELSE IF w.gnl_mc[idx].mch THEN Out("error_reopen", -EBUSY, {}, res)
    ELSE IF in.fail = "mch_alloc"
    THEN Out("error_alloc", -ENOMEM, {"mch_alloc"}, res)
    ELSE IF in.fail = "mch_rx_alloc"
    THEN Out("error_nl_handle_alloc_rx", ENOMEM, {"mch_rx_alloc"}, r1)
    ELSE IF in.fail = "mch_rx_connect"
    THEN Out("error_nl_connect_rx", in.err, {"mch_rx_connect"}, r2)
    ELSE IF in.fail = "mch_join"
    THEN Out("error_nl_add_membership", in.err, {"mch_join"}, r3)
    ELSE IF in.fail = "mch_cb_alloc"
    THEN Out("error_cb_alloc", -ENOMEM, {"mch_cb_alloc"}, r3)
    ELSE [result |-> idx, failed |-> {},
          w |-> [w EXCEPT !.gnl_mc[idx].mch = TRUE], res |-> r3]

McFails ==
    {"mch_alloc", "mch_rx_alloc", "mch_rx_connect", "mch_join",
     "mch_cb_alloc"}

\* the tail wimaxll_open has in part_003 and in op-reset.c:
\* result = wimaxll_mc_rx_open(wmx, "msg") and what follows it
OpenMsgPipe(rev, ladder, in, res, w, failed, seen, version, reply) ==
    LET m == wimaxll_mc_rx_open(w, "msg", in, res)
    IN
    IF m.result = -EPROTONOSUPPORT
    THEN OpenResult(rev, "wmx", m.result, failed \cup m.failed, m.res,
                    [m.w EXCEPT !.mc_msg = WIMAXLL_MC_MAX], seen, version,
                    reply)
    ELSE IF m.result < 0
    THEN OpenResult(rev, NULL, m.result, failed \cup m.failed,
                    Goto(ladder, "error_msg_open", m.res), m.w, seen,
                    version, reply)
    ELSE OpenResult(rev, "wmx", m.result, failed \cup m.failed, m.res,
                    [m.w EXCEPT !.mc_msg = m.result], seen, version, reply)

\* ---- part_003 ----

\* wmx->mc_n after wimaxll_mc_group_cb was called for each group of the
\* list: it counts an entry only while mc_n is below the size of the table
RECURSIVE wimaxll_mc_group_cb_mc_n(_, _)
wimaxll_mc_group_cb_mc_n(mc_n, groups) ==
    IF groups = << >> THEN mc_n
    ELSE wimaxll_mc_group_cb_mc_n(
             IF mc_n < WIMAXLL_MC_MAX THEN mc_n + 1 ELSE mc_n, Tail(groups))

\* wimaxll_mc_group_cb appends while the table has room
wimaxll_gnl_resolve_mch(in, w) ==
    IF ~in.exists
    THEN [result |-> in.garbage, failed |-> {"no_dev"}, w |-> w,
          seen |-> FALSE]
    ELSE
    LET w1 == [w EXCEPT !.ifidx = 1]
        w2 == [w1 EXCEPT !.gnl_mc = McTable(in.groups),
                         !.mc_n = wimaxll_mc_group_cb_mc_n(0, in.groups)]
    IN
    IF in.fail = "family"
    THEN [result |-> in.err, failed |-> {"family"}, w |-> w1,
          seen |-> FALSE]
    ELSE IF bad_version(in.version)
    THEN [result |-> -EBADR, failed |-> {"bad_major"}, w |-> w2,
          seen |-> TRUE]
    ELSE [result |-> 1, failed |-> {}, w |-> w2, seen |-> TRUE]

OpenLadder_mch ==
    <<[labels |-> {"error_msg_open", "error_gnl_resolve"},
       obj |-> "nlh_tx", op |-> "close"],
      [labels |-> {"error_nl_connect_tx"}, obj |-> "nlh_tx",
       op |-> "destroy"],
      [labels |-> {"error_nl_handle_alloc_tx"}, obj |-> "wmx",
       op |-> "free"],
      [labels |-> {"error_gnl_handle_alloc"}, obj |-> "wmx", op |-> "none"]>>

OpenFail_mch(label, result, failed, res, w, seen, version) ==
    OpenResult("mch", NULL, result, failed,
               Goto(OpenLadder_mch, label, res), w, seen, version, NoReply)

wimaxll_open_mch(in) ==
    IF in.fail = "malloc"
    THEN OpenFail_mch("error_gnl_handle_alloc", ENOMEM, {"malloc"}, NoRes,
                      BlankHandle, FALSE, 0)
    ELSE
    LET r1 == Did(NoRes, "wmx", "alloc")
        r2 == Did(r1, "nlh_tx", "alloc")
        r3 == Did(r2, "nlh_tx", "connect")
        rs == wimaxll_gnl_resolve_mch(in, BlankHandle)
        version == IF rs.seen THEN in.version ELSE 0
    IN
    IF in.fail = "tx_alloc"
    THEN OpenFail_mch("error_nl_handle_alloc_tx", ENOMEM, {"tx_alloc"}, r1,
                      BlankHandle, FALSE, 0)
    ELSE IF in.fail = "tx_connect"
    THEN OpenFail_mch("error_nl_connect_tx", in.err, {"tx_connect"}, r2,
                      BlankHandle, FALSE, 0)
    ELSE IF rs.result < 0
    THEN OpenFail_mch("error_gnl_resolve", rs.result, rs.failed, r3, rs.w,
                      rs.seen, version)
    ELSE OpenMsgPipe("mch", OpenLadder_mch, in, r3, rs.w, rs.failed,
                     rs.seen, version, NoReply)

OpenFails_mch ==
    {"none", "malloc", "tx_alloc", "tx_connect", "family"} \cup McFails

\* ---- op-reset.c ----

\* the group lists an interface-info reply may carry: up to the size of
\* the table, and lists one longer
IfinfoGroupLists ==
    UNION {[1..n -> GroupNames] : n \in 0..WIMAXLL_MC_MAX}
      \cup {[i \in 1..(WIMAXLL_MC_MAX + 1) |-> g] : g \in GroupNames}

\* what the gnl_mc[] of the context, a local variable nothing initializes,
\* may hold as __wimaxll_cmd_open starts: zeroes, or what was there
StackTables ==
    {[i \in 0..(WIMAXLL_MC_MAX - 1) |-> BlankMc],
     [i \in 0..(WIMAXLL_MC_MAX - 1) |-> [name |-> "?", mch |-> FALSE]]}

PlainFrame(kind, code) ==
    [kind |-> kind, code |-> code, version |-> 0, parse |-> 0,
     has_groups |-> FALSE, groups |-> <<>>]

\* WIMAX_GNL_RP_IFINFO frames: the version of its header, whether the
\* attributes parse, whether the group list is there, the groups
IfinfoFrames ==
    {[kind |-> "ifinfo", code |-> 0, version |-> v, parse |-> p,
      has_groups |-> g, groups |-> gs] :
        v \in Versions, p \in {0}, g \in {TRUE}, gs \in IfinfoGroupLists}
    \cup {[kind |-> "ifinfo", code |-> 0, version |-> v, parse |-> -EINVAL,
           has_groups |-> FALSE, groups |-> <<>>] : v \in Versions}
    \cup {[kind |-> "ifinfo", code |-> 0, version |-> v, parse |-> 0,
           has_groups |-> FALSE, groups |-> <<>>] : v \in Versions}

\* an acknowledgement, a kernel error, a message of another command
OtherFrames ==
    {PlainFrame("ack", 0), PlainFrame("err", -ENODEV), PlainFrame("other", 0)}

\* what the kernel sends back to the open command: the kernel answers one
\* open command with at most one interface-info message
OtherReplies(max) == UNION {[1..n -> OtherFrames] : n \in 0..max}

InsertAt(s, i, f) == SubSeq(s, 1, i - 1) \o <<f>> \o SubSeq(s, i, Len(s))

Replies ==
    OtherReplies(MaxReply)
    \cup UNION {{InsertAt(s, i, f) : i \in 1..(Len(s) + 1),
                                     f \in IfinfoFrames} :
                   s \in OtherReplies(MaxReply - 1)}

\* cnt is the number of entries __wimaxll_ifinfo_parse_groups wrote
IfinfoCtxInit(stack) ==
    [result |-> -EINPROGRESS, gnl_mc |-> stack, seen |-> FALSE,
     version |-> 0, failed |-> {}, cnt |-> 0]

wimaxll_gnl_rp_ifinfo_error_cb(ctx, error) ==
    IF ctx.result = -EINPROGRESS THEN [ctx EXCEPT !.result = error] ELSE ctx

__wimaxll_ifinfo_parse_groups(ctx, f) ==
    IF ~f.has_groups
    THEN [result |-> -EBADR, ctx |-> ctx]
    ELSE [result |-> 0, ctx |-> [ctx EXCEPT !.gnl_mc = McTable(f.groups),
                                           !.cnt = Len(f.groups)]]

wimaxll_gnl_rp_ifinfo_cb(ctx, f) ==
    IF f.kind # "ifinfo"
    THEN [ret |-> NL_SKIP, ctx |-> [ctx EXCEPT !.result = -ENXIO]]
    ELSE
    LET c1 == [ctx EXCEPT !.seen = TRUE, !.version = f.version]
        g == __wimaxll_ifinfo_parse_groups(c1, f)
    IN
    IF bad_version(f.version)
    THEN [ret |-> NL_SKIP,
          ctx |-> [c1 EXCEPT !.result = -EBADR,
                             !.failed = @ \cup {"bad_major"}]]
    ELSE IF f.parse < 0
    THEN [ret |-> NL_SKIP, ctx |-> [c1 EXCEPT !.result = f.parse]]
    ELSE IF g.result < 0
    THEN [ret |-> NL_SKIP, ctx |-> [g.ctx EXCEPT !.result = g.result]]
    ELSE [ret |-> NL_OK, ctx |-> [g.ctx EXCEPT !.result = 0]]

\* nl_recvmsgs_default with these two callbacks set: an acknowledgement has
\* no callback, an error stops the parsing, NL_OK and NL_SKIP go on
RECURSIVE nl_recvmsgs_default_ifinfo(_, _)
nl_recvmsgs_default_ifinfo(ctx, frames) ==
    IF frames = <<>> THEN ctx
    ELSE LET f == Head(frames)
         IN CASE f.kind = "ack" ->
                    nl_recvmsgs_default_ifinfo(ctx, Tail(frames))
              [] f.kind = "err" ->
                    wimaxll_gnl_rp_ifinfo_error_cb(ctx, f.code)
              [] OTHER ->
                    nl_recvmsgs_default_ifinfo(
                        wimaxll_gnl_rp_ifinfo_cb(ctx, f).ctx, Tail(frames))

CmdOpenOut(result, failed, w, ctx, sent, frames) ==
    [result |-> result,
     failed |-> failed \cup ctx.failed
                \cup (IF result < 0 THEN {"cmd_open"} ELSE {}),
     w |-> w, seen |-> ctx.seen, version |-> ctx.version,
     anomaly |-> sent /\ result = -EINPROGRESS,
     reply |-> [ReplySummary(sent, frames) EXCEPT !.cnt = ctx.cnt]]

\* mutant: a reply that never came is not an error
__wimaxll_cmd_open_lenient(in, w) ==
    LET ctx == nl_recvmsgs_default_ifinfo(IfinfoCtxInit(in.stack), in.reply)
    IN
    IF in.fail = "msg_alloc" \/ in.fail = "msg_put"
    THEN CmdOpenOut(-ENOMEM, {in.fail}, w, IfinfoCtxInit(in.stack), FALSE,
                    <<>>)
    ELSE IF in.fail = "send"
    THEN CmdOpenOut(in.err, {"send"}, w, IfinfoCtxInit(in.stack), FALSE,
                    <<>>)
    ELSE CmdOpenOut(IF ctx.result = -EINPROGRESS THEN 0 ELSE ctx.result, {},
                    [w EXCEPT !.gnl_mc = ctx.gnl_mc], ctx, TRUE, in.reply)

__wimaxll_cmd_open(in, w) ==
    LET ctx == nl_recvmsgs_default_ifinfo(IfinfoCtxInit(in.stack), in.reply)
    IN
    IF in.fail = "msg_alloc" \/ in.fail = "msg_put"
    THEN CmdOpenOut(-ENOMEM, {in.fail}, w, IfinfoCtxInit(in.stack), FALSE,
                    <<>>)
    ELSE IF in.fail = "send"
    THEN CmdOpenOut(in.err, {"send"}, w, IfinfoCtxInit(in.stack), FALSE,
                    <<>>)
    ELSE CmdOpenOut(ctx.result, {}, [w EXCEPT !.gnl_mc = ctx.gnl_mc], ctx,
                    TRUE, in.reply)

OpenLadder_ifinfo ==
    <<[labels |-> {"error_msg_open", "error_cmd_open", "error_ctrl_resolve"},
       obj |-> "nlh_tx", op |-> "close"],
      [labels |-> {"error_nl_connect_tx"}, obj |-> "nlh_tx",
       op |-> "destroy"],
      [labels |-> {"error_nl_handle_alloc_tx"}, obj |-> "wmx",
       op |-> "free"],
      [labels |-> {"error_gnl_handle_alloc"}, obj |-> "wmx", op |-> "none"]>>

OpenFail_ifinfo(label, result, failed, res, w, seen, version, reply) ==
    OpenResult("ifinfo", NULL, result, failed,
               Goto(OpenLadder_ifinfo, label, res), w, seen, version, reply)

wimaxll_open_ifinfo(in) ==
    IF in.fail = "malloc"
    THEN OpenFail_ifinfo("error_gnl_handle_alloc", ENOMEM, {"malloc"},
                         NoRes, BlankHandle, FALSE, 0, NoReply)
    ELSE
    LET r1 == Did(NoRes, "wmx", "alloc")
        r2 == Did(r1, "nlh_tx", "alloc")
        r3 == Did(r2, "nlh_tx", "connect")
        c == __wimaxll_cmd_open(in, BlankHandle)
    IN
    IF in.fail = "tx_alloc"
    THEN OpenFail_ifinfo("error_nl_handle_alloc_tx", ENOMEM, {"tx_alloc"},
                         r1, BlankHandle, FALSE, 0, NoReply)
    ELSE IF in.fail = "tx_connect"
    THEN OpenFail_ifinfo("error_nl_connect_tx", in.err, {"tx_connect"}, r2,
                         BlankHandle, FALSE, 0, NoReply)
    ELSE IF in.fail = "family" \/ ~in.exists
    THEN OpenFail_ifinfo("error_ctrl_resolve", in.err,
                         IF in.exists THEN {"family"} ELSE {"no_dev"}, r3,
                         BlankHandle, FALSE, 0, NoReply)
    ELSE IF c.result < 0
    THEN OpenFail_ifinfo("error_cmd_open", c.result, c.failed, r3, c.w,
                         c.seen, c.version, c.reply)
    ELSE OpenMsgPipe("ifinfo", OpenLadder_ifinfo, in, r3, c.w, c.failed,
                     c.seen, c.version, c.reply)

OpenFails_ifinfo ==
    {"none", "malloc", "tx_alloc", "tx_connect", "family", "msg_alloc",
     "msg_put", "send"} \cup McFails

\* ---- reading from a pipe of an open handle (part_001, pipe.c, op-msg.c) ----

\* what one nl_recvmsgs() on an open receive handle leaves as the result
ReadRes == {-EINPROGRESS, -ENODATA, 0, -EIO}

ReadAgain == {-EINPROGRESS, -ENODATA}

\* the outcomes of the successive receives of one blocking read
ReadSeqs ==
    {s \in UNION {[1..n -> ReadRes] : n \in 1..MaxReads} :
        s[Len(s)] \notin ReadAgain}

\* mutant: the index is not checked against the size of the table
wimaxll_mc_rx_read_unchecked(w, index, rx) ==
    IF index \notin DOMAIN w.gnl_mc THEN [ret |-> rx, deref |-> TRUE]
    ELSE IF ~w.gnl_mc[index].mch THEN [ret |-> -EBADF, deref |-> FALSE]
    ELSE [ret |-> rx, deref |-> FALSE]

\* deref: a multicast group handle that is not there was dereferenced
wimaxll_mc_rx_read(w, index, rx) ==
    IF index >= WIMAXLL_MC_MAX THEN [ret |-> -EINVAL, deref |-> FALSE]
    ELSE IF ~w.gnl_mc[index].mch THEN [ret |-> -EBADF, deref |-> FALSE]
    ELSE [ret |-> rx, deref |-> FALSE]

RECURSIVE wimaxll_pipe_read(_, _, _)
wimaxll_pipe_read(w, pipe_id, rxs) ==
    LET r == wimaxll_mc_rx_read(w, pipe_id, Head(rxs))
    IN IF r.ret \in ReadAgain /\ Len(rxs) > 1
       THEN LET n == wimaxll_pipe_read(w, pipe_id, Tail(rxs))
            IN [ret |-> n.ret, deref |-> r.deref \/ n.deref]
       ELSE r

__wimaxll_get_mc_handle(w, pipe_id) ==
    IF pipe_id >= WIMAXLL_MC_MAX THEN NULL
    ELSE IF ~w.gnl_mc[pipe_id].mch THEN NULL
    ELSE "mch"

\* the callback is swapped in and out only when the pipe has a handle
wimaxll_pipe_msg_read(w, pipe_id, rxs) ==
    LET mch == __wimaxll_get_mc_handle(w, pipe_id)
        r == wimaxll_pipe_read(w, pipe_id, rxs)
    IN [ret |-> IF r.ret >= 0 /\ mch = NULL THEN -EINPROGRESS ELSE r.ret,
        deref |-> r.deref]

wimaxll_msg_read(w, rxs) == wimaxll_pipe_msg_read(w, w.mc_msg, rxs)

OpenReadApis ==
    {"wimaxll_mc_rx_read", "wimaxll_pipe_read", "wimaxll_pipe_msg_read",
     "wimaxll_msg_read"}

OpenRead(a, w, rxs) ==
    CASE a = "wimaxll_mc_rx_read" -> wimaxll_mc_rx_read(w, w.mc_msg, Head(rxs))
      [] a = "wimaxll_pipe_read" -> wimaxll_pipe_read(w, w.mc_msg, rxs)
      [] a = "wimaxll_pipe_msg_read" ->
            wimaxll_pipe_msg_read(w, w.mc_msg, rxs)
      [] OTHER -> wimaxll_msg_read(w, rxs)

NoRead ==
    [api |-> "none", ret |-> 0, deref |-> FALSE, n |-> 0, same |-> TRUE,
     handle |-> NULL]

\* ---- closing ----

wimaxll_mc_rx_close(res) ==
    Did(Did(Did(res, "mch_rx", "close"), "mch_rx", "destroy"), "mch", "free")

\* part_003 and op-reset.c: every open multicast group handle, then tx
wimaxll_close_mch(o) ==
    LET r0 == IF \E i \in DOMAIN o.w.gnl_mc : o.w.gnl_mc[i].mch
              THEN wimaxll_mc_rx_close(o.res) ELSE o.res
    IN Did(Did(Did(r0, "nlh_tx", "close"), "nlh_tx", "destroy"),
           "wmx", "free")

\* mutant: the sockets are released in the order they were acquired
wimaxll_close_tx_first(o) ==
    Did(Did(Did(Did(Did(o.res, "nlh_tx", "close"), "nlh_tx", "destroy"),
                "nlh_rx", "close"), "nlh_rx", "destroy"), "wmx", "free")

\* op-open.c: rx, then tx
wimaxll_close(o) ==
    Did(Did(Did(Did(Did(o.res, "nlh_rx", "close"), "nlh_rx", "destroy"),
                "nlh_tx", "close"), "nlh_tx", "destroy"), "wmx", "free")

\* ---- the application opens, reads and closes ----

\* the errno a failed open left, by what the device was
OpenSeen(o, class, old) ==
    IF o.ret = NULL /\ class THEN o.errno ELSE old

Opened(o, nodev, proto) ==
    /\ opn_pc = "idle"
    /\ opn' = o
    /\ opn_pc' = IF o.ret = NULL THEN "failed" ELSE "open"
    /\ opn_rd' = NoRead
    /\ h_nodev' = OpenSeen(o, nodev, h_nodev)
    /\ h_proto' = OpenSeen(o, proto, h_proto)
    /\ UNCHANGED <<auxvars, ackvars, rxvars, cmdvars, WIMAX_GNL_VERSION, opn_budget>>

\* op-open.c: wimaxll_open(device)
app_wimaxll_open ==
    /\ opn_pc = "idle"
    /\ \E device \in Devices, fail \in OpenFails, err \in NlErrs,
          groups \in GroupLists, version \in Versions, probe \in ProbeRes :
         \E exists \in (IF device = NULL THEN {TRUE} ELSE BOOLEAN) :
           LET o == wimaxll_open([device |-> device, exists |-> exists,
                                  fail |-> fail, err |-> err,
                                  groups |-> groups, version |-> version,
                                  probe |-> probe])
           IN Opened(o, "no_dev" \in o.failed,
                     device # NULL /\ exists /\ "rfkill" \in o.failed
                       /\ probe = -ENODEV)

\* part_003: wimaxll_open(device)
app_wimaxll_open_mch ==
    /\ opn_pc = "idle"
    /\ \E exists \in BOOLEAN, fail \in OpenFails_mch, err \in NlErrs,
          groups \in GroupLists, version \in Versions, garbage \in Garbage :
         LET o == wimaxll_open_mch([exists |-> exists, fail |-> fail,
                                    err |-> err, groups |-> groups,
                                    version |-> version,
                                    garbage |-> garbage])
         IN Opened(o, FALSE, FALSE)

\* op-reset.c: wimaxll_open(device)
app_wimaxll_open_ifinfo ==
    /\ opn_pc = "idle"
    /\ \E exists \in BOOLEAN, fail \in OpenFails_ifinfo, err \in NlErrs,
          reply \in Replies, stack \in StackTables :
         LET o == wimaxll_open_ifinfo([exists |-> exists, fail |-> fail,
                                       err |-> err, reply |-> reply,
                                       stack |-> stack])
         IN Opened(o, FALSE, FALSE)

\* op-reset.c: wimaxll_open(device) when the entries written past the end
\* of the table of the context hit what the stack holds next and the
\* process dies
app_wimaxll_open_ifinfo_smashed ==
    /\ opn_pc = "idle"
    /\ \E err \in NlErrs, reply \in Replies, stack \in StackTables :
         LET o == wimaxll_open_ifinfo([exists |-> TRUE, fail |-> "none",
                                       err |-> err, reply |-> reply,
                                       stack |-> stack])
         IN /\ o.reply.cnt > WIMAXLL_MC_MAX
            /\ opn' = o
    /\ opn_pc' = "crashed"
    /\ UNCHANGED <<auxvars, ackvars, rxvars, cmdvars, WIMAX_GNL_VERSION,
                   opn_rd, opn_budget, h_nodev, h_proto>>

\* one of the four reads is made on the default pipe of the handle
app_read_default_pipe ==
    /\ opn_pc = "open" /\ opn.rev \in {"mch", "ifinfo"} /\ opn_budget > 0
    /\ \E a \in OpenReadApis, rxs \in ReadSeqs :
         LET r == OpenRead(a, opn.w, rxs)
         IN opn_rd' = [api |-> a, ret |-> r.ret, deref |-> r.deref,
                       n |-> opn_rd.n + 1,
                       same |-> opn_rd.same
                                /\ (opn_rd.n = 0 \/ opn_rd.ret = r.ret),
                       handle |-> __wimaxll_get_mc_handle(opn.w, opn.w.mc_msg)]
    /\ opn_budget' = opn_budget - 1
    /\ UNCHANGED <<auxvars, ackvars, rxvars, cmdvars, WIMAX_GNL_VERSION, opn_pc, opn,
                   h_nodev, h_proto>>

app_wimaxll_close ==
    /\ opn_pc = "open"
    /\ opn' = [opn EXCEPT !.res = IF opn.rev = "cb" THEN wimaxll_close(opn)
                                  ELSE wimaxll_close_mch(opn)]
    /\ opn_pc' = "closed"
    /\ UNCHANGED <<auxvars, ackvars, rxvars, cmdvars, WIMAX_GNL_VERSION, opn_rd,
                   opn_budget, h_nodev, h_proto>>

\* the application is done with the handle, or with the failure
app_open_done ==
    /\ opn_pc \in {"failed", "closed"}
    /\ opn_pc' = "idle" /\ opn' = NoOpen /\ opn_rd' = NoRead
    /\ opn_budget' = MaxReads
    /\ UNCHANGED <<auxvars, ackvars, rxvars, cmdvars, WIMAX_GNL_VERSION, h_nodev,
                   h_proto>>

OpenNext ==
    \/ app_wimaxll_open
    \/ app_wimaxll_open_mch
    \/ app_wimaxll_open_ifinfo
    \/ app_wimaxll_open_ifinfo_smashed
    \/ app_read_default_pipe
    \/ app_wimaxll_close
    \/ app_open_done

(***************************************************************************)
(* wimaxll_msg_write: the attributes put in the frame, and what parsing    *)
(* the frame with wimaxll_gnl_msg_from_user_policy gives back.  An         *)
(* attribute is a struct nlattr: nla_len (16 bits, header included),       *)
(* nla_type, and the payload bytes.                                        *)
(***************************************************************************)
\* longest buffer written
MaxLen == 2

\* sizeof(struct nlattr): nla_len and nla_type, 16 bits each
NLA_HDRLEN == 2 + 2

Bytes == {0, 255}
\* const void *buf, size_t size
WriteBufs == UNION {[1..n -> Bytes] : n \in 0..MaxLen}
\* const char *pipe_name: NULL or a string, by the codes of its characters
NullName == <<-1>>
WritePipes == {NullName, << >>, <<97>>, <<97, 98>>}
\* interface indexes of a handle open for one interface
WriteIfidxs == {1, 258}

\* host byte order of the builds the library is made for
u32_bytes(v) == [i \in 1..4 |-> (v \div (256 ^ (i - 1))) % 256]

bytes_u32(b) == b[1] + 256 * b[2] + 65536 * b[3] + 16777216 * b[4]

nlattr(type, payload) ==
    [nla_type |-> type, nla_len |-> (NLA_HDRLEN + Len(payload)) % 65536,
     payload |-> payload]

\* nla_put and its wrappers: a failed put leaves the message as it was
nla_put(msg, type, payload, ok) ==
    IF ok THEN Append(msg, nlattr(type, payload)) ELSE msg

\* part_002, 434-437: none of the three values returned is looked at
wimaxll_msg_write_attrs(w, pipe_name, b, oks) ==
    LET m1 == nla_put(<< >>, "WIMAX_GNL_MSG_IFIDX", u32_bytes(w.ifidx),
                      oks[1])
        m2 == IF pipe_name # NullName
              THEN nla_put(m1, "WIMAX_GNL_MSG_PIPE_NAME",
                           pipe_name \o <<0>>, oks[2])
              ELSE m1
    IN nla_put(m2, "WIMAX_GNL_MSG_DATA", b, oks[3])

\* the bytes of a C string: up to the first NUL
RECURSIVE c_string(_)
c_string(b) ==
    IF b = << >> \/ Head(b) = 0 THEN << >>
    ELSE <<Head(b)>> \o c_string(Tail(b))

\* wimaxll_gnl_msg_from_user_policy: NLA_UNSPEC, NLA_U32, NLA_STRING
policy_check(a) ==
    LET n == a.nla_len - NLA_HDRLEN
    IN CASE a.nla_type = "WIMAX_GNL_MSG_IFIDX" ->
              IF n < 4 THEN -ERANGE ELSE 0
         [] a.nla_type = "WIMAX_GNL_MSG_PIPE_NAME" ->
              IF n < 1 THEN -ERANGE
              ELSE IF a.payload[n] # 0 THEN -EINVAL ELSE 0
         [] OTHER -> 0

NoTb ==
    [parse |-> 0, ifidx |-> -1, pipe_name |-> NullName, data |-> AbsentData]

\* genlmsg_parse, then what wimaxll_gnl_handle_msg_to_user takes from tb[]
RECURSIVE genlmsg_parse(_, _)
genlmsg_parse(msg, tb) ==
    IF msg = << >> THEN tb
    ELSE LET a == Head(msg)
             n == a.nla_len - NLA_HDRLEN
             bad == policy_check(a)
         IN IF bad < 0 THEN [tb EXCEPT !.parse = bad]
            ELSE genlmsg_parse(Tail(msg),
                   CASE a.nla_type = "WIMAX_GNL_MSG_IFIDX" ->
                          [tb EXCEPT !.ifidx = bytes_u32(a.payload)]
                     [] a.nla_type = "WIMAX_GNL_MSG_PIPE_NAME" ->
                          [tb EXCEPT !.pipe_name = c_string(a.payload)]
                     [] OTHER ->
                          [tb EXCEPT !.data = SubSeq(a.payload, 1, n)])

NoWrite == [ifidx |-> 0, pipe_name |-> NullName, buf |-> << >>, put |-> TRUE]

WrIdle ==
    /\ wr_pc = "idle" /\ wr_in = NoWrite /\ wr_frame = << >> /\ wr_ret = 0
    /\ wr_tb = NoTb

\* wimaxll_msg_write(wmx, pipe_name, buf, size) up to the transmission
app_wimaxll_msg_write ==
    /\ wr_pc = "idle"
    /\ \E ifidx \in WriteIfidxs \cup {0}, pipe_name \in WritePipes,
          b \in WriteBufs, oks \in [1..3 -> BOOLEAN], alloc_ok \in BOOLEAN,
          put_ok \in BOOLEAN, send \in SendRes :
         LET w == [wmx EXCEPT !.ifidx = ifidx]
             r == wimaxll_msg_write(w, alloc_ok, put_ok, ENOMEM, send)
         IN /\ wr_in' = [ifidx |-> ifidx, pipe_name |-> pipe_name,
                         buf |-> b,
                         put |-> oks[1] /\ oks[3]
                                   /\ (pipe_name = NullName \/ oks[2])]
            /\ wr_ret' = r.ret
            /\ IF r.sent
               THEN /\ wr_pc' = "sent"
                    /\ wr_frame' = wimaxll_msg_write_attrs(w, pipe_name, b,
                                                           oks)
               ELSE /\ wr_pc' = "failed"
                    /\ wr_frame' = << >>
    /\ UNCHANGED <<wr_rest, wr_tb>>

\* the frame is parsed with the policy of the message attributes
wr_genlmsg_parse ==
    /\ wr_pc = "sent"
    /\ wr_tb' = genlmsg_parse(wr_frame, NoTb)
    /\ wr_pc' = "parsed"
    /\ UNCHANGED <<wr_rest, wr_in, wr_frame, wr_ret>>

wr_done ==
    /\ wr_pc \in {"failed", "parsed"}
    /\ wr_pc' = "idle" /\ wr_in' = NoWrite /\ wr_frame' = << >>
    /\ wr_ret' = 0 /\ wr_tb' = NoTb
    /\ UNCHANGED wr_rest

WriteNext ==
    \/ app_wimaxll_msg_write
    \/ wr_genlmsg_parse
    \/ wr_done

(***************************************************************************)
(* i2400m helpers (internal.h): i2400m_msg_to_dev called by several        *)
(* threads while another thread receives and runs i2400m_msg_to_user_cb.   *)
(* pthread_cond_wait releases the mutex for as long as the thread waits    *)
(* and takes it again before it returns.                                   *)
(***************************************************************************)
\* calls to i2400m_msg_to_dev made in one run
MaxCalls == 3

\* the threads that call i2400m_msg_to_dev
Callers == {"t1", "t2"}
I2400M_MT_INVALID == "I2400M_MT_INVALID"
\* message types of commands; the reply carries the type of its command
MsgTypes == {"GET_A", "GET_B"}
\* what the reply callback of the caller returns
ReplyCbRes == {0, 7}
\* what wimaxll_msg_write returns
MsgWriteRes == {0, -EIO}

NoOwner == "none"
\* the thread that calls wimaxll_recv
RxThread == "rx"

\* a message type the device sends unasked (a report)
ReportTypes == {"REPORT_STATE"}
\* errno.h: EINTR is 4
EINTR == 2 + 2

NoRxFrame == [mt |-> I2400M_MT_INVALID, pipe |-> NULL]
\* no reply has woken the thread
NotWoken == << >>

I24Idle ==
    /\ i2400m = [mutex |-> NoOwner, mt_pending |-> I2400M_MT_INVALID,
                 mt_cb |-> NoOwner, mt_result |-> 0, freed |-> FALSE]
    /\ caller_pc = [c \in Callers |-> "idle"]
    /\ caller_mt = [c \in Callers |-> I2400M_MT_INVALID]
    /\ caller_ret = [c \in Callers |-> 0]
    /\ caller_budget = MaxCalls
    /\ dev_queue = << >>
    /\ rx_thread = NoRxFrame
    /\ destroy_pc = "none"
    /\ h_reply = [c \in Callers |-> NotWoken]

\* pthread_mutex_lock(&i2400m->mutex) of i2400m_msg_to_dev; no call is
\* started on a handle the application is destroying
i2400m_msg_to_dev_lock(c) ==
    /\ caller_pc[c] = "idle" /\ caller_budget > 0
    /\ destroy_pc = "none"
    /\ i2400m.mutex = NoOwner
    /\ \E mt \in MsgTypes : caller_mt' = [caller_mt EXCEPT ![c] = mt]
    /\ i2400m' = [i2400m EXCEPT !.mutex = c]
    /\ caller_pc' = [caller_pc EXCEPT ![c] = "locked"]
    /\ caller_budget' = caller_budget - 1
    /\ UNCHANGED <<i24_rest, caller_ret, dev_queue, rx_thread, destroy_pc,
                   h_reply>>

\* mt_pending and mt_cb are set and the message is written; then the
\* thread waits on the condition, or leaves when the write failed
i2400m_msg_to_dev_write(c) ==
    /\ caller_pc[c] = "locked"
    /\ \E result \in MsgWriteRes, cb \in {NoOwner, c} :
         IF result < 0
         THEN /\ i2400m' = [i2400m EXCEPT !.mt_pending = I2400M_MT_INVALID,
                                          !.mt_cb = cb, !.mutex = NoOwner]
              /\ caller_ret' = [caller_ret EXCEPT ![c] = result]
              /\ caller_pc' = [caller_pc EXCEPT ![c] = "done"]
              /\ UNCHANGED dev_queue
         ELSE /\ i2400m' = [i2400m EXCEPT !.mt_pending = caller_mt[c],
                                          !.mt_cb = cb, !.mutex = NoOwner]
              /\ dev_queue' = Append(dev_queue,
                                      [by |-> c, mt |-> caller_mt[c]])
              /\ caller_pc' = [caller_pc EXCEPT ![c] = "waiting"]
              /\ UNCHANGED caller_ret
    /\ UNCHANGED <<i24_rest, caller_mt, caller_budget, rx_thread, destroy_pc,
                   h_reply>>

\* pthread_cond_wait returns without a signal, as POSIX lets it
pthread_cond_wait_spurious(c) ==
    /\ caller_pc[c] = "waiting"
    /\ caller_pc' = [caller_pc EXCEPT ![c] = "woken"]
    /\ UNCHANGED <<i24_rest, i2400m, caller_mt, caller_ret, caller_budget,
                   dev_queue, rx_thread, destroy_pc, h_reply>>

\* pthread_cond_wait takes the mutex again
pthread_cond_wait_relock(c) ==
    /\ caller_pc[c] = "woken"
    /\ i2400m.mutex = NoOwner
    /\ i2400m' = [i2400m EXCEPT !.mutex = c]
    /\ caller_pc' = [caller_pc EXCEPT ![c] = "relocked"]
    /\ UNCHANGED <<i24_rest, caller_mt, caller_ret, caller_budget,
                   dev_queue, rx_thread, destroy_pc, h_reply>>

\* what a read of mt_result yields: the field, or whatever the memory
\* holds by then once the descriptor was freed
mt_result_read(d) ==
    IF d.freed THEN {d.mt_result} \cup ReplyCbRes ELSE {d.mt_result}

\* result = i2400m->mt_result; mt_pending = I2400M_MT_INVALID; unlock
i2400m_msg_to_dev_return(c) ==
    /\ caller_pc[c] = "relocked"
    /\ \E result \in mt_result_read(i2400m) :
         caller_ret' = [caller_ret EXCEPT ![c] = result]
    /\ i2400m' = [i2400m EXCEPT !.mt_pending = I2400M_MT_INVALID,
                                !.mutex = NoOwner]
    /\ caller_pc' = [caller_pc EXCEPT ![c] = "done"]
    /\ UNCHANGED <<i24_rest, caller_mt, caller_budget, dev_queue, rx_thread,
                   destroy_pc, h_reply>>

\* the thread takes the value returned
i2400m_caller_leave(c) ==
    /\ caller_pc[c] = "done"
    /\ caller_pc' = [caller_pc EXCEPT ![c] = "idle"]
    /\ caller_mt' = [caller_mt EXCEPT ![c] = I2400M_MT_INVALID]
    /\ caller_ret' = [caller_ret EXCEPT ![c] = 0]
    /\ h_reply' = [h_reply EXCEPT ![c] = NotWoken]
    /\ UNCHANGED <<i24_rest, i2400m, caller_budget, dev_queue, rx_thread,
                   destroy_pc>>

\* a message arrives on the default pipe, the answer to the oldest command
\* or a report, and i2400m_msg_to_user_cb takes the mutex; the application
\* receives no more once it destroys the handle
i2400m_msg_to_user_cb_lock ==
    /\ rx_thread = NoRxFrame
    /\ destroy_pc = "none"
    /\ i2400m.mutex = NoOwner
    /\ \/ /\ dev_queue # << >>
          /\ rx_thread' = [mt |-> Head(dev_queue).mt, pipe |-> NULL]
          /\ dev_queue' = Tail(dev_queue)
       \/ /\ \E mt \in ReportTypes : rx_thread' = [mt |-> mt, pipe |-> NULL]
          /\ UNCHANGED dev_queue
    /\ i2400m' = [i2400m EXCEPT !.mutex = RxThread]
    /\ UNCHANGED <<i24_rest, caller_pc, caller_mt, caller_ret, caller_budget,
                   destroy_pc, h_reply>>

\* a message arrives on a named pipe: pipe_name != NULL, the mutex is not
\* taken
i2400m_msg_to_user_cb_named ==
    /\ rx_thread = NoRxFrame
    /\ destroy_pc = "none"
    /\ \E mt \in MsgTypes, pipe \in PipeNames :
         rx_thread' = [mt |-> mt, pipe |-> pipe]
    /\ UNCHANGED <<i24_rest, i2400m, caller_pc, caller_mt, caller_ret,
                   caller_budget, dev_queue, destroy_pc, h_reply>>

\* pthread_cond_signal wakes one of the threads waiting, if there is one
pthread_cond_signal(pc) ==
    IF \E c \in Callers : pc[c] = "waiting"
    THEN {[pc EXCEPT ![c] = "woken"] :
             c \in {d \in Callers : pc[d] = "waiting"}}
    ELSE {pc}

\* pthread_cond_broadcast wakes every thread waiting
pthread_cond_broadcast(pc) ==
    [c \in Callers |-> IF pc[c] = "waiting" THEN "woken" ELSE pc[c]]

\* what the reply callback yields: mt_cb(...) or 0 without a callback
mt_cb_results(d) == IF d.mt_cb # NoOwner THEN ReplyCbRes ELSE {0}

\* mutant: a message on the default pipe signals whatever its type
i2400m_msg_to_user_cb_matches_any(frame, d) == frame.pipe = NULL

\* the test of i2400m_msg_to_user_cb: default pipe and the type pending
i2400m_msg_to_user_cb_matches(frame, d) ==
    frame.pipe = NULL /\ frame.mt = d.mt_pending

\* a message on a named pipe is left alone; under the mutex a reply of the
\* pending type runs mt_cb and signals
i2400m_msg_to_user_cb ==
    /\ rx_thread # NoRxFrame
    /\ IF rx_thread.pipe # NULL
       THEN UNCHANGED <<i2400m, caller_pc, h_reply>>
       ELSE IF i2400m_msg_to_user_cb_matches(rx_thread, i2400m)
       THEN \E r \in mt_cb_results(i2400m) :
              /\ i2400m' = [i2400m EXCEPT !.mt_pending = I2400M_MT_INVALID,
                                          !.mt_result = r,
                                          !.mutex = NoOwner]
              /\ caller_pc' \in pthread_cond_signal(caller_pc)
              /\ h_reply' = [c \in Callers |->
                               IF caller_pc[c] # caller_pc'[c]
                               THEN <<r>> ELSE h_reply[c]]
       ELSE /\ i2400m' = [i2400m EXCEPT !.mutex = NoOwner]
            /\ UNCHANGED <<caller_pc, h_reply>>
    /\ rx_thread' = NoRxFrame
    /\ UNCHANGED <<i24_rest, caller_mt, caller_ret, caller_budget,
                   dev_queue, destroy_pc>>

\* pthread_mutex_lock(&i2400m->mutex) of i2400m_destroy
i2400m_destroy_lock ==
    /\ destroy_pc = "none"
    /\ i2400m.mutex = NoOwner
    /\ i2400m' = [i2400m EXCEPT !.mutex = "destroy"]
    /\ destroy_pc' = "locked"
    /\ UNCHANGED <<i24_rest, caller_pc, caller_mt, caller_ret, caller_budget,
                   dev_queue, rx_thread, h_reply>>

\* mt_result = -EINTR; pthread_cond_broadcast; pthread_mutex_unlock
i2400m_destroy_broadcast ==
    /\ destroy_pc = "locked"
    /\ i2400m' = [i2400m EXCEPT !.mt_result = -EINTR, !.mutex = NoOwner]
    /\ caller_pc' = pthread_cond_broadcast(caller_pc)
    /\ destroy_pc' = "unlocked"
    /\ UNCHANGED <<i24_rest, caller_mt, caller_ret, caller_budget,
                   dev_queue, rx_thread, h_reply>>

\* wimaxll_close(i2400m->wmx); free(i2400m)
i2400m_destroy_free ==
    /\ destroy_pc = "unlocked"
    /\ i2400m' = [i2400m EXCEPT !.freed = TRUE]
    /\ destroy_pc' = "freed"
    /\ UNCHANGED <<i24_rest, caller_pc, caller_mt, caller_ret, caller_budget,
                   dev_queue, rx_thread, h_reply>>

I24Next ==
    \/ \E c \in Callers : i2400m_msg_to_dev_lock(c)
    \/ \E c \in Callers : i2400m_msg_to_dev_write(c)
    \/ \E c \in Callers : pthread_cond_wait_spurious(c)
    \/ \E c \in Callers : pthread_cond_wait_relock(c)
    \/ \E c \in Callers : i2400m_msg_to_dev_return(c)
    \/ \E c \in Callers : i2400m_caller_leave(c)
    \/ i2400m_msg_to_user_cb_lock
    \/ i2400m_msg_to_user_cb_named
    \/ i2400m_msg_to_user_cb
    \/ i2400m_destroy_lock
    \/ i2400m_destroy_broadcast
    \/ i2400m_destroy_free

(***************************************************************************)
(* i2400m_tlv_buffer_walk (internal.h): a buffer of TLVs is a sequence of  *)
(* bytes, a TLV is a header of two little-endian 16-bit fields, type and   *)
(* length, followed by 'length' bytes.  A pointer into the buffer is       *)
(* <<offset>>, NULL is << >>.                                              *)
(***************************************************************************)
\* longest buffer walked
MaxBuf == 6

\* sizeof(struct i2400m_tlv_hdr): type and length, 16 bits each
TlvHdrSize == 2 + 2

TlvBytes == {0, 2, 5}
TlvBufs == UNION {[1..n -> TlvBytes] : n \in 0..MaxBuf}

NullTlv == << >>

\* a byte of the buffer; what lies behind its end is whatever is there
byte_at(b, i, beyond) == IF i \in 1..Len(b) THEN b[i] ELSE beyond

\* wimaxll_le16_to_cpu(tlv_pos->length), tlv_pos at offset off
tlv_length(b, off, beyond) ==
    byte_at(b, off + 3, beyond) + 256 * byte_at(b, off + 4, beyond)

\* the TLV at off, header and payload, lies inside the buffer
TlvInside(b, off) ==
    /\ off + TlvHdrSize <= Len(b)
    /\ off + TlvHdrSize + tlv_length(b, off, 0) <= Len(b)

\* the walk as its comment describes it: NULL for a TLV that does not fit
i2400m_tlv_buffer_walk_checked(b, pos, beyond) ==
    LET top == Len(b)
        next == IF pos = NullTlv THEN 0
                ELSE pos[1] + tlv_length(b, pos[1], beyond) + TlvHdrSize
    IN IF next >= top THEN NullTlv
       ELSE IF ~TlvInside(b, next) THEN NullTlv
       ELSE <<next>>

\* both error labels return tlv_pos, which only the two tests against
\* tlv_top have set to NULL
i2400m_tlv_buffer_walk(b, pos, beyond) ==
    LET top == Len(b)
        next == IF pos = NullTlv THEN 0
                ELSE pos[1] + tlv_length(b, pos[1], beyond) + TlvHdrSize
        avail_size == top - next
    IN IF next = top THEN NullTlv
       ELSE IF next > top THEN NullTlv
       ELSE IF avail_size < TlvHdrSize THEN <<next>>
       ELSE IF avail_size < TlvHdrSize + tlv_length(b, next, beyond)
       THEN <<next>>
       ELSE <<next>>

TlvIdle == tlv_pc = "idle" /\ tlv_buf = << >> /\ tlv_pos = NullTlv

\* a buffer of TLVs arrives and the walk over it starts: tlv = NULL
tlv_walk_start ==
    /\ tlv_pc = "idle"
    /\ \E b \in TlvBufs : tlv_buf' = b
    /\ tlv_pos' = NullTlv
    /\ tlv_pc' = "start"
    /\ UNCHANGED tlv_rest

\* while ((tlv = i2400m_tlv_buffer_walk(buf, size, tlv)))
tlv_walk_next ==
    /\ tlv_pc \in {"start", "walk"}
    /\ \E beyond \in TlvBytes :
         tlv_pos' = i2400m_tlv_buffer_walk(tlv_buf, tlv_pos, beyond)
    /\ tlv_pc' = IF tlv_pos' = NullTlv THEN "end" ELSE "walk"
    /\ UNCHANGED <<tlv_rest, tlv_buf>>

tlv_walk_done ==
    /\ tlv_pc = "end"
    /\ tlv_pc' = "idle" /\ tlv_buf' = << >> /\ tlv_pos' = NullTlv
    /\ UNCHANGED tlv_rest

TlvNext ==
    \/ tlv_walk_start
    \/ tlv_walk_next
    \/ tlv_walk_done

(***************************************************************************)
(* The rfkill command (part_007): the plugin's rfkill_fn and the main of   *)
(* the stand-alone tool.  The device has a hardware switch (bit 0 of the   *)
(* status) and a software switch (bit 1); wimaxll_rfkill returns the       *)
(* status after the request, or a negative errno code.                     *)
(***************************************************************************)
RfOps == {"WIMAX_RF_OFF", "WIMAX_RF_ON", "WIMAX_RF_QUERY"}

\* enum wimax_rf_state as the switch bits have it: off 0, on 1
rf_state(op) == IF op = "WIMAX_RF_ON" THEN 1 ELSE 0

\* (status & 0x2) >> 1
sw_bit(status) == (status \div 2) % 2

\* how the kernel answers a request on a device with switches dev: an
\* error, or the status with the software switch as asked or left as it was
RfkillAnswers(dev, op) ==
    {[sw |-> dev.sw, ret |-> e] : e \in {-EIO, -ENODEV, -ENOMEM}}
      \cup {[sw |-> sw, ret |-> dev.hw + 2 * sw] :
              sw \in (IF op = "WIMAX_RF_QUERY" THEN {dev.sw}
                      ELSE {dev.sw, rf_state(op)})}

NoRun == [tool |-> "none", op |-> "none", status |-> 0, result |-> 0]

\* rfkill_fn of the plugin, given what argp_parse made of the arguments
\* and what wimaxll_rfkill returned
rfkill_fn(parsed, op, status) ==
    IF parsed < 0 THEN parsed
    ELSE IF status < 0 THEN status
    ELSE IF op # "WIMAX_RF_QUERY" /\ sw_bit(status) # rf_state(op)
    THEN -EIO
    ELSE status

\* op_name of the stand-alone tool
OpNames == {"on", "off", "query", "bogus"}

rfkill_op(op_name) ==
    CASE op_name = "on" -> "WIMAX_RF_ON"
      [] op_name = "off" -> "WIMAX_RF_OFF"
      [] op_name = "query" -> "WIMAX_RF_QUERY"
      [] OTHER -> "none"

\* main of the stand-alone tool: 'goto error_check' leaves the status in
\* result, 'result = 0' is reached only when the check passed
rfkill_main(opened, errno, op_name, status) ==
    LET op == rfkill_op(op_name)
    IN IF ~opened THEN -errno
       ELSE IF op = "none" THEN -EINVAL
       ELSE IF status < 0 THEN status
       ELSE IF op # "WIMAX_RF_QUERY" /\ sw_bit(status) # rf_state(op)
       THEN status
       ELSE 0

RfkIdle ==
    /\ rfk_pc = "idle" /\ rfk_run = NoRun
    /\ rfk_dev \in [hw : {0, 1}, sw : {0, 1}]

\* the user moves the hardware switch
rfk_hw_switch ==
    /\ rfk_pc = "idle"
    /\ rfk_dev' = [rfk_dev EXCEPT !.hw = 1 - @]
    /\ UNCHANGED <<rfk_rest, rfk_pc, rfk_run>>

\* the plugin's command is run
rfkill_fn_run ==
    /\ rfk_pc = "idle"
    /\ \E op \in RfOps, parsed \in {0, -EINVAL} :
       \E a \in (IF parsed < 0 THEN {[sw |-> rfk_dev.sw, ret |-> 0]}
                 ELSE RfkillAnswers(rfk_dev, op)) :
         /\ rfk_dev' = [rfk_dev EXCEPT !.sw = a.sw]
         /\ rfk_run' = [tool |-> "rfkill_fn",
                        op |-> IF parsed < 0 THEN "none" ELSE op,
                        status |-> a.ret,
                        result |-> rfkill_fn(parsed, op, a.ret)]
    /\ rfk_pc' = "done"
    /\ UNCHANGED rfk_rest

\* the stand-alone tool is run
rfkill_main_run ==
    /\ rfk_pc = "idle"
    /\ \E op_name \in OpNames, opened \in BOOLEAN,
          errno \in {ENODEV, ENOMEM} :
       \E a \in (IF ~opened \/ rfkill_op(op_name) = "none"
                 THEN {[sw |-> rfk_dev.sw, ret |-> 0]}
                 ELSE RfkillAnswers(rfk_dev, rfkill_op(op_name))) :
         /\ rfk_dev' = [rfk_dev EXCEPT !.sw = a.sw]
         /\ rfk_run' = [tool |-> "main",
                        op |-> IF opened THEN rfkill_op(op_name) ELSE "none",
                        status |-> a.ret,
                        result |-> rfkill_main(opened, errno, op_name,
                                               a.ret)]
    /\ rfk_pc' = "done"
    /\ UNCHANGED rfk_rest

\* the command has ended
rfk_exit ==
    /\ rfk_pc = "done"
    /\ rfk_pc' = "idle" /\ rfk_run' = NoRun
    /\ UNCHANGED <<rfk_rest, rfk_dev>>

RfkNext ==
    \/ rfk_hw_switch
    \/ rfkill_fn_run
    \/ rfkill_main_run
    \/ rfk_exit

(***************************************************************************)
(* State names (part_000): wimaxll_state_by_name and wimaxll_state_to_name *)
(* look a state up in wimax_st_names_vals[], a table of name/value pairs   *)
(* whose last entry ends it and is not looked at.  The table comes from    *)
(* names-vals.h, which is generated: every table is checked.               *)
(***************************************************************************)
\* states the table names at most
MaxStates == 2

__WIMAX_ST_INVALID == "__WIMAX_ST_INVALID"
StNames == {"DOWN", "READY", "CONNECTED"}
StValues == {"WIMAX_ST_DOWN", "WIMAX_ST_READY", "WIMAX_ST_CONNECTED"}
\* the entry that ends the table
StEnd == [name |-> NULL, value |-> "__WIMAX_ST_NULL"]

StEntries == [name : StNames, value : StValues]

\* tables of up to n entries, no name and no value twice
RECURSIVE StTablesOf(_)
StTablesOf(n) ==
    IF n = 0 THEN {<< >>}
    ELSE LET shorter == StTablesOf(n - 1)
         IN shorter
              \cup {Append(t, e) : t \in {u \in shorter : Len(u) = n - 1},
                                   e \in StEntries}

StTables ==
    {t \o <<StEnd>> :
        t \in {u \in StTablesOf(MaxStates) :
                 \A i, j \in 1..Len(u) :
                    i # j => (u[i].name # u[j].name
                                /\ u[i].value # u[j].value)}}

\* for (itr = 0; itr < max; itr++) with max = array_size - 1
RECURSIVE st_find(_, _, _, _)
st_find(table, itr, field, key) ==
    IF itr > Len(table) - 1 THEN 0
    ELSE IF table[itr][field] = key THEN itr
    ELSE st_find(table, itr + 1, field, key)

\* mutant: the value of the entry the loop stopped at is returned
wimaxll_state_by_name_end(table, name) ==
    LET itr == st_find(table, 1, "name", name)
    IN IF itr # 0 THEN table[itr].value ELSE table[Len(table)].value

wimaxll_state_by_name(table, name) ==
    LET itr == st_find(table, 1, "name", name)
    IN IF itr # 0 THEN table[itr].value ELSE __WIMAX_ST_INVALID

wimaxll_state_to_name(table, st) ==
    LET itr == st_find(table, 1, "value", st)
    IN IF itr # 0 THEN table[itr].name ELSE NULL

NoLookup == [fn |-> "none", arg |-> "", ret |-> ""]

StIdle == st_pc = "idle" /\ st_lookup = NoLookup /\ st_table \in StTables

app_wimaxll_state_by_name ==
    /\ st_pc = "idle"
    /\ \E name \in StNames \cup {"bogus"} :
         st_lookup' = [fn |-> "wimaxll_state_by_name", arg |-> name,
                       ret |-> wimaxll_state_by_name(st_table, name)]
    /\ st_pc' = "done"
    /\ UNCHANGED <<st_rest, st_table>>

app_wimaxll_state_to_name ==
    /\ st_pc = "idle"
    /\ \E st \in StValues \cup {"__WIMAX_ST_NULL", __WIMAX_ST_INVALID} :
         st_lookup' = [fn |-> "wimaxll_state_to_name", arg |-> st,
                       ret |-> wimaxll_state_to_name(st_table, st)]
    /\ st_pc' = "done"
    /\ UNCHANGED <<st_rest, st_table>>

st_lookup_done ==
    /\ st_pc = "done"
    /\ st_pc' = "idle" /\ st_lookup' = NoLookup
    /\ UNCHANGED <<st_rest, st_table>>

StNext ==
    \/ app_wimaxll_state_by_name
    \/ app_wimaxll_state_to_name
    \/ st_lookup_done

\* what is not being checked is at rest: the switches of the device off, a
\* table of no state
AuxIdle ==
    /\ WrIdle /\ I24Idle /\ TlvIdle
    /\ RfkIdle /\ rfk_dev = [hw |-> 0, sw |-> 0]
    /\ StIdle /\ st_table = <<StEnd>>

\* no handle is being opened; the library was compiled against version v
OpenIdle(v) ==
    /\ WIMAX_GNL_VERSION = v /\ opn_pc = "idle" /\ opn = NoOpen
    /\ opn_rd = NoRead /\ opn_budget = MaxReads /\ h_nodev = 0 /\ h_proto = 0

CmdIdle == cmd_op = "none" /\ cmd_pc = "idle" /\ cmd_ret = 0 /\ cmd_sent = 0

AckIdle ==
    /\ ack_pc = "idle" /\ ack_ctx = AckCtxInit /\ ack_ret = 0
    /\ ack_first = NoFrame
    /\ ack_second = NoFrame /\ ack_rderr = 0
    /\ ack_writes = 0 /\ ack_impl = "ctx" /\ ack_malformed = FALSE

InitAck == AckInit /\ wmx = [ifidx |-> 1, msg_to_user_cb |-> NULL,
                             msg_to_user_priv |-> NULL,
                             state_change_cb |-> NULL,
                             state_change_context |-> NULL]
                   /\ nl_report = FALSE /\ RxIdle
                   /\ rx_budget = MaxFrames /\ CmdIdle /\ OpenIdle(1)
                   /\ AuxIdle

InitRecv ==
    /\ AckIdle /\ ack_budget = MaxRecvs
    /\ RxInit /\ rx_budget = MaxFrames
    /\ CmdIdle /\ OpenIdle(1) /\ AuxIdle

SpecAck == InitAck /\ [][AckNext]_vars

SpecRecv == InitRecv /\ [][RxNext]_vars

InitCmd ==
    /\ AckIdle /\ ack_budget = CmdAcks
    /\ RxInit /\ rx_budget = CmdFrames
    /\ CmdIdle /\ OpenIdle(1) /\ AuxIdle

SpecCmd == InitCmd /\ [][CmdNext]_vars

InitOpen ==
    /\ AckIdle /\ ack_budget = MaxRecvs
    /\ wmx = [ifidx |-> 1, msg_to_user_cb |-> NULL, msg_to_user_priv |-> NULL,
              state_change_cb |-> NULL, state_change_context |-> NULL]
    /\ nl_report = FALSE /\ RxIdle /\ rx_budget = MaxFrames
    /\ CmdIdle
    /\ \E v \in CompiledVersions : OpenIdle(v)
    /\ AuxIdle

SpecOpen == InitOpen /\ [][OpenNext]_vars

InitWrite ==
    /\ AckIdle /\ ack_budget = MaxRecvs
    /\ wmx = [ifidx |-> 1, msg_to_user_cb |-> NULL, msg_to_user_priv |-> NULL,
              state_change_cb |-> NULL, state_change_context |-> NULL]
    /\ nl_report = FALSE /\ RxIdle /\ rx_budget = MaxFrames
    /\ CmdIdle /\ OpenIdle(1) /\ AuxIdle

LibIdle ==
    /\ AckIdle /\ ack_budget = MaxRecvs
    /\ wmx = [ifidx |-> 1, msg_to_user_cb |-> NULL, msg_to_user_priv |-> NULL,
              state_change_cb |-> NULL, state_change_context |-> NULL]
    /\ nl_report = FALSE /\ RxIdle /\ rx_budget = MaxFrames
    /\ CmdIdle /\ OpenIdle(1)

SpecWrite == InitWrite /\ [][WriteNext]_vars

SpecI2400m == InitWrite /\ [][I24Next]_vars

SpecTlv == InitWrite /\ [][TlvNext]_vars

InitRfkill ==
    /\ LibIdle /\ WrIdle /\ I24Idle /\ TlvIdle /\ RfkIdle
    /\ StIdle /\ st_table = <<StEnd>>

SpecRfkill == InitRfkill /\ [][RfkNext]_vars

InitState ==
    /\ LibIdle /\ WrIdle /\ I24Idle /\ TlvIdle
    /\ RfkIdle /\ rfk_dev = [hw |-> 0, sw |-> 0]
    /\ StIdle

SpecState == InitState /\ [][StNext]_vars

(***************************************************************************)
(* Properties of wimaxll_wait_for_ack                                      *)
(***************************************************************************)
\* C1: the pending result of wimaxll_wait_for_ack starts at -EINPROGRESS
\* and is written at most once per call; the call returns the code of the
\* first ack or error frame processed, whatever frame follows it.
C1_AckResultWriteOnce ==
    /\ ack_writes <= 1
    /\ (ack_pc = "recv" /\ ack_first = NoFrame
          => ack_ctx.result = -EINPROGRESS)
    /\ (ack_pc = "done" /\ ack_impl = "ctx" /\ ack_first # NoFrame
          => ack_ret = ack_first.code)

\* an ack was followed by an error frame in the same datagram
C1_Witness ==
    /\ ack_pc = "done" /\ ack_impl = "ctx"
    /\ ack_first = [kind |-> "ack", code |-> 0]
    /\ ack_second.kind = "err"
    /\ ack_ret = 0

\* C2: when no ack or error frame was processed and the receive on the tx
\* socket reports a read error, wimaxll_wait_for_ack returns that error.
C2_ReadErrorReturned ==
    (ack_pc = "done" /\ ack_first = NoFrame /\ ack_rderr < 0)
        => ack_ret = ack_rderr

(***************************************************************************)
(* Properties of wimaxll_recv and of the calls built on it                 *)
(***************************************************************************)
\* C3: once a callback has returned -EBUSY no further callback is invoked
\* in the same wimaxll_recv call.
C3_NoCallbackAfterStop == h_after_stop = 0

\* C4: a wimaxll_recv call in which a callback returned -EBUSY returns
\* -EBUSY.
C4_StopReturnsEBUSY ==
    (Path = "recv" /\ rpc = "ret" /\ h_stopped) => r_ret = -EBUSY

\* C5: fed unknown, unknown, state change (RADIO_OFF to READY) with only a
\* state change callback registered, wimaxll_recv invokes the callback
\* exactly once and returns what the callback returned.
C5_UnknownFramesSkipped ==
    (/\ api = "recv" /\ rpc = "ret"
     /\ h_frames = Len(FedFrames)
     /\ wmx.msg_to_user_cb = NULL /\ wmx.state_change_cb = "user"
     /\ h_stch = [old |-> "RADIO_OFF", new |-> "READY"])
        => (h_ncb = 1 /\ r_ret = h_cbret)

\* C6 as stated: a message-to-user or state-change frame with no callback
\* registered is classified -ENODATA, like an unknown command.
C6_NoCallbackIsNoData ==
    (h_last.cmd \in {"msg", "stch"} /\ ~h_last.hascb)
        => h_last.class = -ENODATA

\* C6 amended: such a frame is classified -ENODATA by the dispatcher of
\* wimaxll_mc_rx_read and 0 by the dispatcher of wimaxll_recv; an unknown
\* command is classified -ENODATA by both.
C6_NoCallbackClass ==
    /\ (h_last.cmd \in {"msg", "stch"} /\ ~h_last.hascb)
          => h_last.class = (IF Path = "mc" THEN -ENODATA ELSE 0)
    /\ h_last.cmd = "unknown" => h_last.class = -ENODATA

\* wimaxll_recv has dispatched a message-to-user frame with no callback set
C6_Witness ==
    /\ Path = "recv" /\ rpc = "ret"
    /\ h_last = [cmd |-> "msg", hascb |-> FALSE, class |-> 0,
                 lacks |-> FALSE]
    /\ r_ret = 0

\* C7: wimaxll_msg_read, wimaxll_wait_for_state_change and
\* wimaxll_pipe_read do not return -ENODATA; they receive again.
C7_WrappersHideNoData ==
    (api \in {"msg_read", "wfsc", "pipe_read"} /\ api_pc = "done")
        => api_ret # -ENODATA

\* C8 as stated: after a receive wimaxll_recv receives again exactly when
\* the outcome is -EINPROGRESS or -ENODATA and the receive did not fail; a
\* failed receive ends the call with the failure code.
C8_RecvAgainUnlessFailed ==
    [][(Path = "recv" /\ rpc \in {"nl", "cb"} /\ rpc' \in {"loop", "ret"})
         => /\ (rpc' = "loop")
                  <=> (/\ rctx'.result \in {-EINPROGRESS, -ENODATA}
                       /\ nl_res' >= 0)
            /\ nl_res' < 0 => (rpc' = "ret" /\ r_ret' = nl_res')]_vars

\* C8 amended: wimaxll_recv receives again exactly when the outcome is
\* -EINPROGRESS or -ENODATA and the receive returned a positive value; a
\* failed receive ends the call with the failure code.
C8_RecvAgainWhenPositive ==
    [][(Path = "recv" /\ rpc \in {"nl", "cb"} /\ rpc' \in {"loop", "ret"})
         => /\ (rpc' = "loop")
                  <=> (/\ rctx'.result \in {-EINPROGRESS, -ENODATA}
                       /\ nl_res' > 0)
            /\ nl_res' < 0 => (rpc' = "ret" /\ r_ret' = nl_res')]_vars

\* wimaxll_recv goes for another receive after a datagram of unknown frames
C8_Witness ==
    /\ api = "recv" /\ rpc = "loop" /\ h_calls >= 1
    /\ rctx.result = -ENODATA /\ nl_res > 0

\* C9: wimaxll_msg_read ends only with a message of the requested pipe,
\* its size returned and its payload in the buffer; a frame of another
\* pipe does not end the call.
C9_MsgReadOnlyMatching ==
    (api = "msg_read" /\ api_pc = "done")
        => /\ api_ret # -EINPROGRESS
           /\ api_ret >= 0
                => /\ h_match.hit
                   /\ (api_arg = WIMAX_PIPE_ANY \/ api_arg = h_match.pipe)
                   /\ buf = h_match.data
                   /\ api_ret = Len(buf)

\* C10: a non-negative return of wimaxll_wait_for_state_change means a
\* state change was received in the call and the out parameters hold it.
C10_StateChangeReported ==
    (api = "wfsc" /\ api_pc = "done" /\ api_ret >= 0)
        => (h_stch # NoStch /\ outs = h_stch)

\* C11: when wimaxll_msg_read or wimaxll_wait_for_state_change has
\* returned, on any path, the callback and context registered for its
\* event are the pair registered before the call; the pair of the other
\* event is the one registered before the call all along.
C11_CallbacksRestored ==
    LET msg_pair(w) == <<w.msg_to_user_cb, w.msg_to_user_priv>>
        stch_pair(w) == <<w.state_change_cb, w.state_change_context>>
    IN /\ (api \in {"msg_read", "wfsc"} /\ api_pc = "done")
             => /\ msg_pair(wmx) = msg_pair(h_wmx0)
                /\ stch_pair(wmx) = stch_pair(h_wmx0)
       /\ api = "msg_read" => stch_pair(wmx) = stch_pair(h_wmx0)
       /\ api = "wfsc" => msg_pair(wmx) = msg_pair(h_wmx0)

\* wimaxll_msg_read has failed to allocate the buffer and the callback the
\* application had registered is in place again
C11_Witness ==
    /\ api = "msg_read" /\ api_pc = "done" /\ api_ret = -ENOMEM
    /\ wmx.msg_to_user_cb = "user" /\ wmx.msg_to_user_priv = "user_priv"
    /\ wmx.state_change_cb = "user"

(***************************************************************************)
(* Properties of the commands and of the interface index                   *)
(***************************************************************************)
\* C12: on a session opened for any interface (interface index 0) a
\* command never transmits a frame and returns -EBADF, also when it is
\* called while wimaxll_recv is executing a message callback.
C12_AnyHandleNeverSends ==
    (h_wmx0.ifidx = 0 /\ cmd_pc # "idle")
        => /\ cmd_sent = 0
           /\ cmd_pc = "done" => cmd_ret = -EBADF

\* C13 as stated: no step changes the interface index of the handle.
C13_IfidxImmutable == [][wmx'.ifidx = wmx.ifidx]_vars

\* C13 amended: the interface index changes only around a message
\* callback: a handle open for any interface holds the index of the frame
\* while the callback executes and its own index again when the callback
\* has returned; no other step changes it.
C13_IfidxOutsideCallback ==
    [][/\ (rpc # "cb" /\ rpc' # "cb") => wmx'.ifidx = wmx.ifidx
       /\ (rpc # "cb" /\ rpc' = "cb")
             => wmx'.ifidx = (IF wmx.ifidx = 0 THEN cur'.frame.ifidx
                              ELSE wmx.ifidx)
       /\ (rpc = "cb" /\ rpc' = "cb") => wmx'.ifidx = wmx.ifidx
       /\ (rpc = "cb" /\ rpc' # "cb") => wmx'.ifidx = h_wmx0.ifidx]_vars

\* the message callback has returned on a handle open for any interface
\* and the handle reports 0 again
C13_Witness ==
    /\ api = "recv" /\ rpc # "cb" /\ h_ncb = 1 /\ h_last.cmd = "msg"
    /\ h_wmx0.ifidx = 0 /\ wmx.ifidx = 0

(***************************************************************************)
(* Properties of wimaxll_open                                              *)
(***************************************************************************)
OpenReturned == opn_pc \in {"open", "failed"}

\* C14: when a step of wimaxll_open failed, wimaxll_open returned NULL,
\* every socket it had allocated or connected is closed and destroyed and
\* the memory of the handle is freed.
C14_FailedOpenLeavesNothing ==
    (OpenReturned /\ opn.failed # {})
        => (opn.ret = NULL /\ NothingLeft(opn.res))

\* C15: an open of a name that is no network interface returns no handle,
\* and the errno it leaves differs from the errno left by the open of an
\* interface that is no WiMAX device.
C15_DistinctOpenStatus ==
    /\ (OpenReturned /\ opn.rev = "cb" /\ "no_dev" \in opn.failed)
          => opn.ret = NULL
    /\ (h_nodev # 0 /\ h_proto # 0) => h_nodev # h_proto

C17_NoMsgGroupIsNoError ==
    OpenReturned => "no_msg_group" \notin opn.failed

\* C18: on a handle whose open found no "msg" group (mc_msg is
\* WIMAXLL_MC_MAX) every read of the default pipe returns a negative value,
\* the same one as the read before it, and dereferences no multicast group
\* handle that is not there.
C18_DegradedReadsFailAlike ==
    (opn_pc = "open" /\ opn.w.mc_msg = WIMAXLL_MC_MAX /\ opn_rd.n > 0)
        => /\ opn_rd.ret < 0
           /\ opn_rd.same
           /\ ~opn_rd.deref
           /\ opn_rd.handle = NULL

\* two reads were made on the default pipe of such a handle
C18_Witness ==
    /\ opn_pc = "open" /\ opn.rev \in {"mch", "ifinfo"}
    /\ opn.w.mc_msg = WIMAXLL_MC_MAX /\ opn_rd.n >= 2

\* the open command was sent and acknowledged, no interface-info came
AckedWithoutIfinfo ==
    /\ OpenReturned /\ opn.rev = "ifinfo"
    /\ opn.reply.sent /\ opn.reply.acked /\ ~opn.reply.ifinfo

\* C19 as stated: the open command acknowledged without an interface-info
\* reply reports a non-negative result.
C19_MissingReplyIsSuccess == AckedWithoutIfinfo => opn.result >= 0

\* C19 amended: the open command acknowledged without an interface-info
\* reply reports a negative result, -EINPROGRESS when nothing but
\* acknowledgements came, and wimaxll_open returns NULL.
C19_MissingReplyFailsOpen ==
    AckedWithoutIfinfo
        => /\ opn.result < 0
           /\ opn.ret = NULL
           /\ opn.reply.only_acks => opn.result = -EINPROGRESS

\* the kernel sent acknowledgements only and the open failed
C19_Witness ==
    /\ opn_pc = "failed" /\ opn.rev = "ifinfo" /\ opn.reply.sent
    /\ opn.reply.acked /\ opn.reply.only_acks
    /\ opn.result = -EINPROGRESS

\* C20: a command that returns a non-negative value sent its frame and
\* the kernel acknowledged it; every failure, to allocate and to prepare
\* the message included, is a negative value.
C20_NonNegativeMeansAcked ==
    (cmd_pc = "done" /\ cmd_ret >= 0)
        => (cmd_sent # 0 /\ ack_first.kind = "ack")

\* a callback called from wimaxll_recv has just returned a negative value
\* other than -EBUSY
CallbackSkipped ==
    /\ api # "pipe_read"
    /\ h_ncb' = h_ncb + 1
    /\ h_cbret' < 0 /\ h_cbret' # -EBUSY

\* C21: when a callback returns a negative value other than -EBUSY only
\* the current message is skipped: the receive stays in the datagram, the
\* count of messages goes up by one, and wimaxll_recv does not return
\* before the remaining frames were dispatched.
C21_SkipContinuesBatch ==
    [][CallbackSkipped => (rpc' = "nl" /\ nrecv' = nrecv + 1
                           /\ r_ret' = r_ret /\ nl_res' = nl_res)]_vars

\* the one callback of a receive returned -EINVAL for the first frame of a
\* datagram, and the second frame, an unknown one, was dispatched after it
C21_Witness ==
    /\ api = "recv" /\ h_calls = 1 /\ nrecv = 2
    /\ h_ncb = 1 /\ h_cbret = -EINVAL
    /\ h_last.cmd = "unknown"

\* what undoes an acquisition: nl_close a connect, nl_handle_destroy an
\* nl_handle_alloc, wimaxll_free the allocation of the handle
Release(step) ==
    <<step[1], IF step[2] = "connect" THEN "close"
               ELSE IF step[1] = "wmx" THEN "free" ELSE "destroy">>

Reverse(s) == [i \in 1..Len(s) |-> s[Len(s) + 1 - i]]

\* the order op-open.c's wimaxll_open acquires in
OpenOrder ==
    <<<<"wmx", "alloc">>, <<"nlh_tx", "alloc">>, <<"nlh_tx", "connect">>,
      <<"nlh_rx", "alloc">>, <<"nlh_rx", "connect">>>>

\* C22: wimaxll_close releases the sockets in exactly the reverse of the
\* order wimaxll_open acquired them in (open: tx allocate, tx connect, rx
\* allocate, rx connect; close: rx close, rx destroy, tx close, tx
\* destroy) and frees the memory of the handle last.
C22_CloseReversesOpen ==
    (opn_pc = "closed" /\ opn.rev = "cb")
        => LET log == opn.res.log
               n == Len(OpenOrder)
           IN /\ Len(log) = 2 * n
              /\ SubSeq(log, 1, n) = OpenOrder
              /\ SubSeq(log, n + 1, 2 * n)
                   = Reverse([i \in 1..n |-> Release(log[i])])
              /\ log[2 * n] = <<"wmx", "free">>

\* a handle opened by op-open.c's wimaxll_open for a named interface was
\* closed
C22_Witness ==
    /\ opn_pc = "closed" /\ opn.rev = "cb" /\ opn.w.ifidx > 0
    /\ Len(opn.res.log) = 10 /\ opn.res.nlh_rx[Len(opn.res.nlh_rx)] = "destroy"

(***************************************************************************)
(* Properties of the frame wimaxll_msg_write makes                         *)
(***************************************************************************)
\* the attributes the arguments of wimaxll_msg_write stand for
WrittenTb ==
    [parse |-> 0, ifidx |-> wr_in.ifidx, pipe_name |-> wr_in.pipe_name,
     data |-> wr_in.buf]

\* C23: parsing the frame of a message written with wimaxll_msg_write
\* gives back the attributes written: the interface index of the handle,
\* the pipe name (none when it was NULL) and the buffer with its size.
C23_WriteRoundTrip == wr_pc = "parsed" => wr_tb = WrittenTb

\* the same of the messages every attribute of which could be added
WriteRoundTripWhenPut ==
    (wr_pc = "parsed" /\ wr_in.put) => wr_tb = WrittenTb

(***************************************************************************)
(* Properties of the i2400m helpers                                        *)
(***************************************************************************)
\* caller c has sent its command and the device has not answered it
AwaitsReply(c) ==
    /\ caller_pc[c] = "waiting"
    /\ \E i \in 1..Len(dev_queue) : dev_queue[i].by = c

\* C24: calls of i2400m_msg_to_dev made by several threads at the same
\* time are serialized: while one caller has sent its command and waits
\* for the reply, the pending message type is the one it set and no other
\* caller is inside the call or has a command of its own at the device.
C24_CallsSerialized ==
    \A c \in Callers :
       AwaitsReply(c)
         => /\ i2400m.mt_pending = caller_mt[c]
            /\ \A d \in Callers \ {c} : caller_pc[d] \in {"idle", "done"}
            /\ Len(dev_queue) = 1

\* C25: every pointer other than NULL that i2400m_tlv_buffer_walk returns
\* designates a TLV whose header and declared payload lie entirely inside
\* the buffer; a truncated TLV is never returned.
C25_WalkInsideBuffer ==
    (tlv_pc = "walk") => TlvInside(tlv_buf, tlv_pos[1])

(***************************************************************************)
(* Properties of the rfkill command                                        *)
(***************************************************************************)
\* an operation other than query got a status whose software switch is
\* not what was asked for
RfkillNotChanged ==
    /\ rfk_pc = "done"
    /\ rfk_run.op \in {"WIMAX_RF_ON", "WIMAX_RF_OFF"}
    /\ rfk_run.status >= 0
    /\ sw_bit(rfk_run.status) # rf_state(rfk_run.op)

\* C26: when the operation is not a query and the software switch bit of
\* the status wimaxll_rfkill returned is not the state asked for, the
\* rfkill command reports a negative status, not success.
C26_RfkillMismatchFails == RfkillNotChanged => rfk_run.result < 0

(***************************************************************************)
(* Properties of the state names                                           *)
(***************************************************************************)
\* a lookup was made of a name, or of a value, the table does not have
UnknownLookup(fn, field) ==
    /\ st_pc = "done" /\ st_lookup.fn = fn
    /\ \A i \in 1..(Len(st_table) - 1) : st_table[i][field] # st_lookup.arg

\* C27 as stated: a lookup of an unknown name and a lookup of an unknown
\* value both yield the reserved INVALID sentinel.
C27_UnknownIsInvalid ==
    (\/ UnknownLookup("wimaxll_state_by_name", "name")
     \/ UnknownLookup("wimaxll_state_to_name", "value"))
        => st_lookup.ret = __WIMAX_ST_INVALID

\* C27: a lookup of an unknown name yields the reserved state
\* __WIMAX_ST_INVALID, a lookup of an unknown value yields NULL, no name;
\* neither is an error, and a name or a value the table has yields what the
\* table pairs it with.
C27_UnknownNameInvalidUnknownValueNull ==
    /\ UnknownLookup("wimaxll_state_by_name", "name")
          => st_lookup.ret = __WIMAX_ST_INVALID
    /\ UnknownLookup("wimaxll_state_to_name", "value")
          => st_lookup.ret = NULL
    /\ (st_pc = "done" /\ st_lookup.ret \notin {NULL, __WIMAX_ST_INVALID})
          => \E i \in 1..(Len(st_table) - 1) :
                {st_lookup.arg, st_lookup.ret}
                   = {st_table[i].name, st_table[i].value}

\* a value the table does not have was looked up in a table of two states
C27_Witness ==
    /\ UnknownLookup("wimaxll_state_to_name", "value")
    /\ Len(st_table) = 3 /\ st_lookup.arg = "WIMAX_ST_READY"
    /\ st_lookup.ret = NULL

\* C28: for a named interface wimaxll_open returns a handle only if the
\* rfkill query it probes the device with returned a non-negative status:
\* every negative result of the probe, not only -ENODEV, makes it return
\* NULL.
C28_NegativeProbeFailsOpen ==
    (OpenReturned /\ opn.rev = "cb" /\ opn.w.ifidx > 0
       /\ "rfkill" \in opn.failed)
        => opn.ret = NULL

\* a frame that lacks a required attribute was just dispatched by
\* wimaxll_recv
DispatchedLacking ==
    /\ api # "pipe_read"
    /\ nrecv' = nrecv + 1
    /\ h_last'.lacks

\* C29: a message frame without the interface index or without the data,
\* and a state-change frame without the old or the new state, never reach
\* the callback of the user; the failure stays with the frame: the receive
\* does not end and the frames that follow are dispatched.
C29_LackingFrameSkipped ==
    [][DispatchedLacking
         => (h_ncb' = h_ncb /\ rpc' = "nl" /\ r_ret' = r_ret
               /\ nl_res' = nl_res /\ wmx' = wmx)]_vars

\* with both callbacks of the user registered a message frame without its
\* data was dispatched first in a datagram and the receive goes on
C29_Witness ==
    /\ api = "recv" /\ rpc = "nl" /\ nrecv = 1
    /\ wmx.msg_to_user_cb = "user" /\ wmx.state_change_cb = "user"
    /\ h_last.cmd = "msg" /\ h_last.lacks /\ h_last.class = -ENXIO
    /\ h_ncb = 0

\* C30: on a handle open for one interface a message frame whose interface
\* index is another one's never has the message callback called: the
\* callback runs only for frames of the interface of the handle.
C30_OtherInterfaceNotDelivered ==
    (rpc = "cb" /\ h_wmx0.ifidx > 0)
        => (cur.frame.ifidx = h_wmx0.ifidx /\ wmx.ifidx = h_wmx0.ifidx)

\* a handle open for interface 1, with the callback of the user set, was
\* given a well-formed message of another interface and did not call it
C30_Witness ==
    /\ api = "recv" /\ rpc = "nl" /\ wmx.ifidx = 1
    /\ wmx.msg_to_user_cb = "user"
    /\ nrecv = 1 /\ h_calls = 1 /\ h_ncb = 0
    /\ h_last.cmd = "msg" /\ ~h_last.lacks /\ h_last.class = -ENODEV

(***************************************************************************)
(* Properties settled last                                                 *)
(***************************************************************************)
\* C31: wimaxll_wait_for_ack (the revision with a completion flag) is still
\* receiving exactly while no ack or error frame has been processed and no
\* receive has failed, and it has returned exactly when one of these
\* happened; a receive cut short by a malformed acknowledgement (too short,
\* or not NLMSG_ERROR) leaves the command pending and the loop receiving.
C31_ReceivesUntilCompleted ==
    ack_impl = "ctx" =>
        /\ (ack_pc = "recv"
              => /\ ack_ctx.msg_done = 0
                 /\ ack_first = NoFrame
                 /\ ack_rderr = 0)
        /\ (ack_pc = "done"
              => \/ ack_first # NoFrame /\ ack_ctx.msg_done = 1
                 \/ ack_rderr < 0)
        /\ (ack_malformed => ack_pc = "recv" /\ ack_ctx = AckCtxInit)

\* a malformed acknowledgement was received and the call is still receiving
C31_Witness ==
    /\ ack_impl = "ctx"
    /\ ack_pc = "recv"
    /\ ack_malformed
    /\ ack_budget > 0

\* the call returned after an ack frame was processed
C31_Returned ==
    /\ ack_impl = "ctx"
    /\ ack_pc = "done"
    /\ ack_first.kind = "ack"
    /\ ack_ctx.msg_done = 1

\* a step of wimaxll_wait_for_state_change in which its default callback is
\* called for a state-change notification
NotificationDispatched ==
    /\ api = "wfsc"
    /\ wmx.state_change_cb = "wimaxll_cb_state_change"
    /\ h_ncb' = h_ncb + 1
    /\ h_last'.cmd = "stch"

\* C32: in one wimaxll_wait_for_state_change call the first notification
\* dispatched is stored in the output states; a later notification of the
\* same call leaves them as they are and ends the dispatch of the receive.
C32_StateChangeWrittenOnce ==
    [][NotificationDispatched =>
         IF sc_ctx.set = 0
         THEN /\ sc_ctx'.set = 1
              /\ outs' = h_stch'
              /\ outs' # NoStch
         ELSE /\ outs' = outs
              /\ rpc' # "nl"]_vars

\* the part that holds: the output states are written at most once and
\* hold the first notification dispatched in the call
C32_OutputsHoldFirst ==
    (api = "wfsc" /\ wmx.state_change_cb = "wimaxll_cb_state_change")
        => /\ outs = h_stch
           /\ (sc_ctx.set = 1) = (h_stch # NoStch)

\* a second notification was dispatched in the call and not recorded
C32_SecondNotRecorded ==
    /\ api = "wfsc"
    /\ h_ncb >= 2
    /\ h_cbret = -EBUSY
    /\ outs = h_stch

\* thread c leaves pthread_cond_wait in this step
WokenNow(c) == caller_pc[c] = "waiting" /\ caller_pc'[c] = "woken"

\* this step is i2400m_msg_to_user_cb for a message on the default pipe of
\* the type of the command thread c sent
ReplyDispatched(c) ==
    /\ rx_thread.pipe = NULL /\ rx_thread.mt = caller_mt[c]
    /\ rx_thread' = NoRxFrame

\* this step is the broadcast of i2400m_destroy
DestroyBroadcast == destroy_pc = "locked" /\ destroy_pc' = "unlocked"

\* C33: a thread blocked in i2400m_msg_to_dev is woken when, and only
\* when, a default-pipe message of the type of its pending command has been
\* dispatched or the handle is being destroyed; woken by a reply, it returns
\* what the reply callback returned for it (0 without a callback).
C33_WokenByItsReplyOnly ==
    [][\A c \in Callers :
         /\ caller_pc[c] = "waiting"
               => (WokenNow(c) <=> (ReplyDispatched(c) \/ DestroyBroadcast))
         /\ (caller_pc[c] = "relocked" /\ caller_pc'[c] = "done"
                /\ h_reply[c] # NotWoken)
               => caller_ret'[c] = h_reply[c][1]]_vars

\* the part that holds: a message on a named pipe, or one whose type is not
\* the pending one, wakes nobody and leaves mt_pending and mt_result alone
C33_OtherMessagesWakeNobody ==
    [][(rx_thread # NoRxFrame /\ rx_thread' = NoRxFrame
          /\ ~i2400m_msg_to_user_cb_matches(rx_thread, i2400m))
         => /\ caller_pc' = caller_pc
            /\ i2400m'.mt_pending = i2400m.mt_pending
            /\ i2400m'.mt_result = i2400m.mt_result]_vars

\* a thread of the descriptor is between its wake-up and its return from
\* i2400m_msg_to_dev: it has yet to lock the mutex, read mt_result and
\* clear mt_pending
StillToFinish(c) == caller_pc[c] \in {"woken", "relocked"}

\* C34: i2400m_destroy does not free the descriptor while a thread woken
\* from its wait in i2400m_msg_to_dev has yet to take the mutex again, read
\* its result and clear the pending type; no such thread takes a step on a
\* descriptor that was freed.
C34_NoAccessAfterFree ==
    [][/\ (~i2400m.freed /\ i2400m'.freed)
            => \A c \in Callers : ~StillToFinish(c)
       /\ \A c \in Callers :
            (StillToFinish(c) /\ caller_pc'[c] # caller_pc[c])
               => ~i2400m.freed]_vars

\* a thread woken by the broadcast of i2400m_destroy returned -EINTR after
\* the descriptor was freed
C34_ReturnedAfterFree ==
    /\ i2400m.freed
    /\ \E c \in Callers : caller_pc[c] = "done" /\ caller_ret[c] = -EINTR

\* the open of op-reset.c returned and its __wimaxll_cmd_open had failed
CmdOpenFailed ==
    /\ opn_pc = "failed"
    /\ opn.rev = "ifinfo"
    /\ "cmd_open" \in opn.failed

\* C35: when __wimaxll_cmd_open fails (no interface-info reply, an error
\* frame, a major version mismatch, a parse failure) the multicast-group
\* table of the handle is as it was before the call, that is as the memset
\* of wimaxll_open left it.
C35_FailedCmdOpenKeepsTable ==
    CmdOpenFailed => opn.w.gnl_mc = BlankHandle.gnl_mc

\* the part that holds: a command that could not be sent leaves the table
\* as it was
C35_UnsentKeepsTable ==
    (CmdOpenFailed /\ ~opn.reply.sent) => opn.w.gnl_mc = BlankHandle.gnl_mc

\* __wimaxll_cmd_open failed on a reply and the table holds a group name
C35_FailedWithGroups ==
    /\ CmdOpenFailed
    /\ opn.reply.sent
    /\ opn.w.gnl_mc[0].name \in GroupNames

\* C36: however many multicast groups the kernel reports, the entries
\* written while they are recorded during open are no more than the group
\* table holds (WIMAXLL_MC_MAX).
C36_GroupsWithinCapacity ==
    (opn_pc \in {"open", "failed", "crashed"} /\ opn.rev \in {"mch", "ifinfo"})
        => /\ opn.w.mc_n <= WIMAXLL_MC_MAX
           /\ opn.reply.cnt <= WIMAXLL_MC_MAX

\* the part that holds: wimaxll_mc_group_cb stops at the end of the table
C36_McGroupCbWithinCapacity ==
    (opn_pc \in {"open", "failed"} /\ opn.rev = "mch")
        => opn.w.mc_n <= WIMAXLL_MC_MAX

\* more groups than the table holds were reported to wimaxll_mc_group_cb
\* and the table is full
C36_McGroupCbFull ==
    /\ opn_pc = "open" /\ opn.rev = "mch"
    /\ opn.w.mc_n = WIMAXLL_MC_MAX
    /\ \A i \in DOMAIN opn.w.gnl_mc : opn.w.gnl_mc[i].name \in GroupNames
====
